---- MODULE Spec2Model ----
(***************************************************************************)
(* Concurrency-and-lifecycle core of the NotebookLM MCP server:            *)
(*   - SessionActor      (src/src/core/session/session-actor.ts)           *)
(*   - SessionEntity     (src/src/core/domain/index.ts)                    *)
(*   - BrowserContextPool(src/src/adapters/browser/context-pool.ts)        *)
(*   - AuthStateMachine  (src/src/core/auth/auth-state-machine.ts)         *)
(* Every component serialises its operations through an AsyncLock; the     *)
(* lock is modelled as a busy flag plus a FIFO queue of waiting callbacks. *)
(* A step of the model is one synchronous segment of the code, i.e. the    *)
(* code between two awaits.                                                *)
(***************************************************************************)
EXTENDS Integers, Sequences, FiniteSets, TLC

\* ------------------------------------------------------------------ bounds
MaxMsgs == 3        \* messages submitted to the actor
MaxPoolOps == 4     \* operations submitted to the pool
MaxAuthOps == 3     \* operations submitted to the auth machine
MaxBusOps == 4      \* calls made on the event bus
MaxEntityCalls == 3 \* transition method calls made on entities
MaxStreams == 2     \* askWithStreaming calls made on the adapter
MaxSetups == 2      \* setupAuth calls made on the auth adapter
MaxFleetMsgs == 3   \* messages submitted to the actors of the fleet, all together
MaxAwaitedCalls == 12 \* auth calls of the caller that awaits each one
MaxPublishes == 110 \* publish calls in the history specification

Questions == {"1", "2"}
Responses == {"r1", "r2"}
Sessions == {"s1", "s2"}

\* ------------------------------------------------------------------ state
VARIABLES
  \* SessionActor
  state,            \* the current SessionEntity
  questionHandler,  \* TRUE when a handler has been set
  eventBus,         \* TRUE when an event bus has been set
  processing,
  queueLength,
  msgs,             \* every message submitted so far, in submission order
  actorBusy,        \* the "actor" lock is held by a running callback
  actorQueue,       \* callbacks waiting for the "actor" lock (message ids)
  startOrder,       \* message ids in the order processMessage began
  handlerCalls,     \* message ids in the order the question handler was invoked
  published,        \* events handed to eventBus.publish, in order
  \* BrowserContextPool
  configured,       \* factory and closer are set
  pool,             \* the entry under SHARED_KEY, or NoEntry
  poolBusy,
  poolQueue,
  pops,             \* every pool operation submitted so far
  nextContext,      \* number of resources the factory has produced
  closeLog,         \* every closer invocation, in order
  \* AuthStateMachine
  initialState,     \* the constructor argument
  authState,
  lastEvent,
  stateHistory,
  authBusy,
  authQueue,
  aops,             \* every auth operation submitted so far
  awaitedCalls,     \* number of auth calls made by a caller that awaits each one
  \* EventBus
  listeners,        \* the emitter's listeners of each channel, in registration order
  closures,         \* the unsubscribe closures handed out so far, with the calls made on each
  busHistory,       \* EventBus.history
  pubCount,         \* number of publish calls so far
  clearedAt,        \* pubCount at the last clearHistory
  pubs,             \* every publish call and whether its promise was rejected
  delivered,        \* every handler invocation, in order
  completed,        \* the invocations whose promise has settled
  waiters,          \* every waitFor call
  busOps,           \* number of calls made on the bus
  \* several sessions
  fleet,            \* the SessionActor of each session
  \* SessionEntity objects
  heap,             \* every SessionEntity object constructed so far
  entityCalls,      \* every transition method call made so far
  now,              \* Date.now()
  \* ActorSessionAdapter, GoogleAuthAdapter
  streams,          \* every askWithStreaming call made so far
  setups            \* every setupAuth call made so far

actorVars == <<state, questionHandler, eventBus, processing, queueLength, msgs,
               actorBusy, actorQueue, startOrder, handlerCalls, published>>
poolVars == <<configured, pool, poolBusy, poolQueue, pops, nextContext, closeLog>>
authVars == <<initialState, authState, lastEvent, stateHistory, authBusy, authQueue, aops,
             awaitedCalls>>
busVars == <<listeners, closures, busHistory, pubCount, clearedAt, pubs, delivered, completed,
            waiters, busOps>>
entityVars == <<heap, entityCalls, now>>
adapterVars == <<streams, setups>>
vars == <<actorVars, poolVars, authVars, busVars, fleet, entityVars, adapterVars>>

\* ============================================================ SessionEntity
NoError == "undefined"

\* SessionEntity.create
create == [status |-> "idle", messages |-> <<>>, errorMessage |-> NoError]

canAcceptMessageAlways(e) == TRUE

canAcceptMessageUnlessClosed(e) == e.status # "closed"

canAcceptMessage(e) == e.status = "idle"

isActive(e) == e.status # "closed" /\ e.status # "error"

startProcessing(e, userMessage) ==
  [e EXCEPT !.status = "processing",
            !.messages = Append(e.messages, [role |-> "user", content |-> userMessage])]

startWaiting(e) == [e EXCEPT !.status = "waiting"]

canComplete(e) == e.status = "waiting" \/ e.status = "processing"

completeWithResponseNoMessage(e, response) ==
  [e EXCEPT !.status = "idle", !.errorMessage = NoError]

completeWithResponse(e, response) ==
  [e EXCEPT !.status = "idle",
            !.messages = Append(e.messages, [role |-> "assistant", content |-> response]),
            !.errorMessage = NoError]

markErrorNoMessage(e, error) == [e EXCEPT !.status = "error"]

markError(e, error) == [e EXCEPT !.status = "error", !.errorMessage = error]

resetKeepsMessages(e) == [e EXCEPT !.status = "idle", !.errorMessage = NoError]

reset(e) == [e EXCEPT !.status = "idle", !.messages = <<>>, !.errorMessage = NoError]

closeStaysOpen(e) == e

close(e) == [e EXCEPT !.status = "closed"]

\* lastActivityAt is the only field touch changes; timestamps are not modelled
touch(e) == e

\* ============================================================= SessionActor
\* A failure is what a promise is rejected with or what a handler throws.
\* isError: the value is an Error instance; origin: who created the value.
Failure(isErr, m, o) == [isError |-> isErr, message |-> m, origin |-> o]

HandlerFailures == { Failure(TRUE, "boom", "handler"), Failure(FALSE, "text", "handler") }

NoThrow == Failure(FALSE, "", "none")

Pending == [kind |-> "pending", value |-> Failure(FALSE, "", "none")]
Resolved(r) == [kind |-> "resolved", value |-> Failure(FALSE, r, "none")]
Rejected(f) == [kind |-> "rejected", value |-> f]

MsgTypes == {"ASK_QUESTION", "RESET", "CLOSE", "TOUCH"}

\* error instanceof Error ? error.message : String(error)
ErrorMessageOf(f) == f.message

\* error instanceof Error ? error : new Error(errorMessage)
RejectionOf(f) == IF f.isError THEN f ELSE Failure(TRUE, ErrorMessageOf(f), "actor")

Publish(log, ev) == IF eventBus THEN Append(log, ev) ELSE log

LockFreeAlways(busy, queue) == TRUE

\* AsyncLock: a callback runs at once when no callback holds the key and none waits
LockFree(busy, queue) == ~busy /\ queue = <<>>

NextWaitingNewest(queue) == queue[Len(queue)]

\* AsyncLock hands the key to the callback that has waited longest
NextWaiting(queue) == Head(queue)

RestWaiting(queue) == Tail(queue)

BeginNoHandlerMarksError(id, m) ==
  LET msg == m[id] IN
  /\ startOrder' = Append(startOrder, id)
  /\ CASE msg.type = "ASK_QUESTION" /\ ~questionHandler ->
            /\ msgs' = [m EXCEPT ![id].pc = "handled",
                          ![id].outcome = Rejected(Failure(TRUE, "No question handler configured", "actor"))]
            /\ processing' = TRUE
            /\ state' = markError(state, "No question handler configured")
            /\ UNCHANGED <<handlerCalls, published>>
       [] msg.type = "ASK_QUESTION" /\ questionHandler /\ ~canAcceptMessage(state) ->
            /\ msgs' = [m EXCEPT ![id].pc = "handled",
                          ![id].outcome = Rejected(Failure(TRUE, state.status, "actor"))]
            /\ processing' = TRUE
            /\ UNCHANGED <<state, handlerCalls, published>>
       [] msg.type = "ASK_QUESTION" /\ questionHandler /\ canAcceptMessage(state) ->
            /\ state' = startWaiting(startProcessing(state, msg.question))
            /\ published' = Publish(published, [type |-> "session:message", role |-> "user", text |-> msg.question])
            /\ handlerCalls' = Append(handlerCalls, id)
            /\ msgs' = [m EXCEPT ![id].pc = "awaitHandler"]
            /\ processing' = TRUE
       [] msg.type = "RESET" ->
            /\ state' = reset(state)
            /\ msgs' = [m EXCEPT ![id].pc = "handled", ![id].outcome = Resolved("")]
            /\ processing' = TRUE
            /\ UNCHANGED <<handlerCalls, published>>
       [] msg.type = "CLOSE" ->
            /\ state' = close(state)
            /\ published' = Publish(published, [type |-> "session:closed", role |-> "", text |-> "manual close"])
            /\ msgs' = [m EXCEPT ![id].pc = "handled", ![id].outcome = Resolved("")]
            /\ processing' = TRUE
            /\ UNCHANGED handlerCalls
       [] msg.type = "TOUCH" ->
            \* handleTouch is not awaited: processMessage runs to its end
            /\ state' = touch(state)
            /\ msgs' = [m EXCEPT ![id].pc = "processed"]
            /\ processing' = FALSE
            /\ UNCHANGED <<handlerCalls, published>>

\* The synchronous part of processMessage for message id of the table m:
\* up to the first await of the branch taken.
Begin(id, m) ==
  LET msg == m[id] IN
  /\ startOrder' = Append(startOrder, id)
  /\ CASE msg.type = "ASK_QUESTION" /\ ~questionHandler ->
            /\ msgs' = [m EXCEPT ![id].pc = "handled",
                          ![id].outcome = Rejected(Failure(TRUE, "No question handler configured", "actor"))]
            /\ processing' = TRUE
            /\ UNCHANGED <<state, handlerCalls, published>>
       [] msg.type = "ASK_QUESTION" /\ questionHandler /\ ~canAcceptMessage(state) ->
            /\ msgs' = [m EXCEPT ![id].pc = "handled",
                          ![id].outcome = Rejected(Failure(TRUE, state.status, "actor"))]
            /\ processing' = TRUE
            /\ UNCHANGED <<state, handlerCalls, published>>
       [] msg.type = "ASK_QUESTION" /\ questionHandler /\ canAcceptMessage(state) ->
            /\ state' = startWaiting(startProcessing(state, msg.question))
            /\ published' = Publish(published, [type |-> "session:message", role |-> "user", text |-> msg.question])
            /\ handlerCalls' = Append(handlerCalls, id)
            /\ msgs' = [m EXCEPT ![id].pc = "awaitHandler"]
            /\ processing' = TRUE
       [] msg.type = "RESET" ->
            /\ state' = reset(state)
            /\ msgs' = [m EXCEPT ![id].pc = "handled", ![id].outcome = Resolved("")]
            /\ processing' = TRUE
            /\ UNCHANGED <<handlerCalls, published>>
       [] msg.type = "CLOSE" ->
            /\ state' = close(state)
            /\ published' = Publish(published, [type |-> "session:closed", role |-> "", text |-> "manual close"])
            /\ msgs' = [m EXCEPT ![id].pc = "handled", ![id].outcome = Resolved("")]
            /\ processing' = TRUE
            /\ UNCHANGED handlerCalls
       [] msg.type = "TOUCH" ->
            \* handleTouch is not awaited: processMessage runs to its end
            /\ state' = touch(state)
            /\ msgs' = [m EXCEPT ![id].pc = "processed"]
            /\ processing' = FALSE
            /\ UNCHANGED <<handlerCalls, published>>

\* The envelope built by enqueue.  ahead (the pending count found at submission),
\* thrown (what the handler threw for this message) and returned (what it
\* returned) are bookkeeping.
NewMsg(type, q) ==
  [type |-> type, question |-> q, pc |-> "queued", outcome |-> Pending,
   ahead |-> queueLength, thrown |-> NoThrow, returned |-> ""]

\* SessionActor.enqueue, reached from ask / reset / close / touch
enqueue(type, q) ==
  /\ Len(msgs) < MaxMsgs
  /\ queueLength' = queueLength + 1
  /\ LET id == Len(msgs) + 1
         m == Append(msgs, NewMsg(type, q))
     IN IF LockFree(actorBusy, actorQueue)
        THEN /\ actorBusy' = TRUE
             /\ Begin(id, m)
             /\ UNCHANGED actorQueue
        ELSE /\ msgs' = m
             /\ actorQueue' = Append(actorQueue, id)
             /\ UNCHANGED <<actorBusy, state, processing, startOrder, handlerCalls, published>>
  /\ UNCHANGED <<questionHandler, eventBus, poolVars, authVars, busVars, fleet, entityVars, adapterVars>>

ask == \E q \in Questions : enqueue("ASK_QUESTION", q)

actorReset == enqueue("RESET", "")

actorClose == enqueue("CLOSE", "")

actorTouch == enqueue("TOUCH", "")

setQuestionHandler ==
  /\ ~questionHandler
  /\ questionHandler' = TRUE
  /\ UNCHANGED <<state, eventBus, processing, queueLength, msgs, actorBusy, actorQueue,
                 startOrder, handlerCalls, published, poolVars, authVars, busVars, fleet, entityVars, adapterVars>>

setEventBus ==
  /\ ~eventBus
  /\ eventBus' = TRUE
  /\ UNCHANGED <<state, questionHandler, processing, queueLength, msgs, actorBusy, actorQueue,
                 startOrder, handlerCalls, published, poolVars, authVars, busVars, fleet, entityVars, adapterVars>>

\* The lock hands the key to the next waiting callback
actorGrant ==
  /\ ~actorBusy
  /\ actorQueue # <<>>
  /\ actorBusy' = TRUE
  /\ actorQueue' = RestWaiting(actorQueue)
  /\ Begin(NextWaiting(actorQueue), msgs)
  /\ UNCHANGED <<questionHandler, eventBus, queueLength, poolVars, authVars, busVars, fleet, entityVars, adapterVars>>

\* handleAskQuestion, the catch block
askFailed(id, f) ==
  /\ state' = markError(state, ErrorMessageOf(f))
  /\ published' = Publish(published, [type |-> "session:error", role |-> "", text |-> ErrorMessageOf(f)])
  /\ msgs' = [msgs EXCEPT ![id].pc = "handled", ![id].outcome = Rejected(RejectionOf(f)),
                          ![id].thrown = f]

\* the awaited question handler fulfils with response r
handlerReturns ==
  \E id \in 1..Len(msgs), r \in Responses :
    /\ msgs[id].pc = "awaitHandler"
    /\ IF canComplete(state)
       THEN /\ state' = completeWithResponse(state, r)
            /\ published' = Publish(published, [type |-> "session:message", role |-> "assistant", text |-> r])
            /\ msgs' = [msgs EXCEPT ![id].pc = "handled", ![id].outcome = Resolved(r),
                                    ![id].returned = r]
       ELSE askFailed(id, Failure(TRUE, state.status, "entity"))
    /\ UNCHANGED <<questionHandler, eventBus, processing, queueLength, actorBusy, actorQueue,
                   startOrder, handlerCalls, poolVars, authVars, busVars, fleet, entityVars, adapterVars>>

\* the awaited question handler throws or rejects with f
handlerThrows ==
  \E id \in 1..Len(msgs), f \in HandlerFailures :
    /\ msgs[id].pc = "awaitHandler"
    /\ askFailed(id, f)
    /\ UNCHANGED <<questionHandler, eventBus, processing, queueLength, actorBusy, actorQueue,
                   startOrder, handlerCalls, poolVars, authVars, busVars, fleet, entityVars, adapterVars>>

\* processMessage after its await: messageProcessed is emitted, finally clears the flag
processMessageEnd ==
  \E id \in 1..Len(msgs) :
    /\ msgs[id].pc = "handled"
    /\ processing' = FALSE
    /\ msgs' = [msgs EXCEPT ![id].pc = "processed"]
    /\ UNCHANGED <<state, questionHandler, eventBus, queueLength, actorBusy, actorQueue,
                   startOrder, handlerCalls, published, poolVars, authVars, busVars, fleet, entityVars, adapterVars>>

lockCallbackEndNoDecrement ==
  \E id \in 1..Len(msgs) :
    /\ msgs[id].pc = "processed"
    /\ msgs' = [msgs EXCEPT ![id].pc = "done"]
    /\ actorBusy' = FALSE
    /\ UNCHANGED <<state, questionHandler, eventBus, processing, queueLength, actorQueue,
                   startOrder, handlerCalls, published, poolVars, authVars, busVars, fleet, entityVars, adapterVars>>

\* the lock callback after `await this.processMessage(...)`: the counter drops, the key is freed
lockCallbackEnd ==
  \E id \in 1..Len(msgs) :
    /\ msgs[id].pc = "processed"
    /\ queueLength' = queueLength - 1
    /\ msgs' = [msgs EXCEPT ![id].pc = "done"]
    /\ actorBusy' = FALSE
    /\ UNCHANGED <<state, questionHandler, eventBus, processing, actorQueue,
                   startOrder, handlerCalls, published, poolVars, authVars, busVars, fleet, entityVars, adapterVars>>


\* ======================================================= BrowserContextPool
\* this.pool.get(SHARED_KEY) === undefined
NoEntry == [present |-> FALSE, context |-> 0, refCount |-> 0, headless |-> FALSE, sessionIds |-> {}]

\* the entry literal built by acquire after the factory returned
NewEntry(context, headless) ==
  [present |-> TRUE, context |-> context, refCount |-> 0, headless |-> headless, sessionIds |-> {}]

PoolPending == [kind |-> "pending", context |-> 0]
PoolResolved(c) == [kind |-> "resolved", context |-> c]
PoolRejected == [kind |-> "rejected", context |-> 0]

\* An operation submitted to the pool.  found (the entry seen when the lock
\* was granted), closed (resources this operation passed to the closer) and
\* factoryCalls are bookkeeping.
NewPoolOp(op, sid, headless) ==
  [op |-> op, sid |-> sid, headless |-> headless, pc |-> "queued", result |-> PoolPending,
   found |-> NoEntry, closed |-> <<>>, closerThrew |-> FALSE, factoryCalls |-> 0]

NeedsRecreateAlways(entry, headless) == entry.present

\* entry && entry.headless !== headless
NeedsRecreate(entry, headless) == entry.present /\ entry.headless # headless

\* entry.refCount++; entry.sessionIds.add(sessionId)
AddHolder(entry, sid) ==
  [entry EXCEPT !.refCount = entry.refCount + 1, !.sessionIds = entry.sessionIds \cup {sid}]

Max(a, b) == IF a >= b THEN a ELSE b

RemoveHolderKeepsSession(entry, sid) ==
  [entry EXCEPT !.refCount = Max(0, entry.refCount - 1)]

\* entry.refCount = Math.max(0, entry.refCount - 1); entry.sessionIds.delete(sessionId)
RemoveHolder(entry, sid) ==
  [entry EXCEPT !.refCount = Max(0, entry.refCount - 1), !.sessionIds = entry.sessionIds \ {sid}]

IsHolderAnyone(entry, sid) == entry.present

\* release: the entry exists and entry.sessionIds.has(sessionId)
IsHolder(entry, sid) == entry.present /\ sid \in entry.sessionIds

CloseRecord(entry, op) == [context |-> entry.context, refCount |-> entry.refCount, op |-> op]

\* The synchronous part of a pool operation once it holds the "pool" lock,
\* up to its first await; busy tells whether the lock is still held afterwards.
PoolBegin(id, p) ==
  LET o == p[id] IN
  CASE o.op = "acquire" /\ NeedsRecreate(pool, o.headless) ->
         \* await this.closer(entry.context)
         /\ closeLog' = Append(closeLog, CloseRecord(pool, "acquire"))
         /\ pops' = [p EXCEPT ![id].pc = "closing", ![id].found = pool,
                              ![id].closed = Append(o.closed, pool.context)]
         /\ poolBusy' = TRUE
         /\ UNCHANGED <<pool, nextContext>>
    [] o.op = "acquire" /\ ~NeedsRecreate(pool, o.headless) /\ ~pool.present ->
         \* await this.factory(headless, storageState)
         /\ pops' = [p EXCEPT ![id].pc = "creating", ![id].found = pool,
                              ![id].factoryCalls = o.factoryCalls + 1]
         /\ poolBusy' = TRUE
         /\ UNCHANGED <<pool, nextContext, closeLog>>
    [] o.op = "acquire" /\ ~NeedsRecreate(pool, o.headless) /\ pool.present ->
         /\ pool' = AddHolder(pool, o.sid)
         /\ pops' = [p EXCEPT ![id].pc = "done", ![id].found = pool,
                              ![id].result = PoolResolved(pool.context)]
         /\ poolBusy' = FALSE
         /\ UNCHANGED <<nextContext, closeLog>>
    [] o.op = "release" ->
         /\ pool' = IF IsHolder(pool, o.sid)
                    THEN RemoveHolder(pool, o.sid)
                    ELSE pool
         /\ pops' = [p EXCEPT ![id].pc = "done", ![id].found = pool,
                              ![id].result = PoolResolved(0)]
         /\ poolBusy' = FALSE
         /\ UNCHANGED <<nextContext, closeLog>>
    [] o.op = "forceClose" /\ pool.present ->
         \* await this.closer(entry.context) inside the loop
         /\ closeLog' = Append(closeLog, CloseRecord(pool, "forceClose"))
         /\ pops' = [p EXCEPT ![id].pc = "forceClosing", ![id].found = pool,
                              ![id].closed = Append(o.closed, pool.context)]
         /\ poolBusy' = TRUE
         /\ UNCHANGED <<pool, nextContext>>
    [] o.op = "forceClose" /\ ~pool.present ->
         /\ pops' = [p EXCEPT ![id].pc = "done", ![id].result = PoolResolved(0)]
         /\ poolBusy' = FALSE
         /\ UNCHANGED <<pool, nextContext, closeLog>>

\* an operation enters this.lock.acquire("pool", ...)
PoolSubmit(op, sid, headless) ==
  /\ Len(pops) < MaxPoolOps
  /\ LET id == Len(pops) + 1
         p == Append(pops, NewPoolOp(op, sid, headless))
     IN IF LockFree(poolBusy, poolQueue)
        THEN PoolBegin(id, p) /\ UNCHANGED poolQueue
        ELSE /\ pops' = p
             /\ poolQueue' = Append(poolQueue, id)
             /\ UNCHANGED <<pool, poolBusy, nextContext, closeLog>>
  /\ UNCHANGED <<configured, actorVars, authVars, busVars, fleet, entityVars, adapterVars>>

\* an operation that returns or throws before it reaches the lock
PoolRefuse(op, sid, headless, result) ==
  /\ Len(pops) < MaxPoolOps
  /\ pops' = Append(pops, [NewPoolOp(op, sid, headless) EXCEPT !.pc = "done", !.result = result])
  /\ UNCHANGED <<configured, pool, poolBusy, poolQueue, nextContext, closeLog, actorVars, authVars, busVars, fleet, entityVars, adapterVars>>

configure ==
  /\ ~configured
  /\ configured' = TRUE
  /\ UNCHANGED <<pool, poolBusy, poolQueue, pops, nextContext, closeLog, actorVars, authVars, busVars, fleet, entityVars, adapterVars>>

acquire ==
  \E sid \in Sessions, headless \in BOOLEAN :
    IF configured
    THEN PoolSubmit("acquire", sid, headless)
    ELSE PoolRefuse("acquire", sid, headless, PoolRejected)

release == \E sid \in Sessions : PoolSubmit("release", sid, FALSE)

forceClose ==
  IF configured
  THEN PoolSubmit("forceClose", "", FALSE)
  ELSE PoolRefuse("forceClose", "", FALSE, PoolResolved(0))

poolGrantWhileBusy ==
  /\ poolQueue # <<>>
  /\ poolQueue' = RestWaiting(poolQueue)
  /\ PoolBegin(NextWaiting(poolQueue), pops)
  /\ UNCHANGED <<configured, actorVars, authVars, busVars, fleet, entityVars, adapterVars>>

poolGrant ==
  /\ ~poolBusy
  /\ poolQueue # <<>>
  /\ poolQueue' = RestWaiting(poolQueue)
  /\ PoolBegin(NextWaiting(poolQueue), pops)
  /\ UNCHANGED <<configured, actorVars, authVars, busVars, fleet, entityVars, adapterVars>>

closerSettlesPropagates ==
  \E id \in 1..Len(pops), ok \in BOOLEAN :
    /\ pops[id].pc = "closing"
    /\ IF ok
       THEN /\ pool' = NoEntry
            /\ pops' = [pops EXCEPT ![id].pc = "creating",
                                     ![id].factoryCalls = pops[id].factoryCalls + 1]
            /\ UNCHANGED poolBusy
       ELSE /\ pops' = [pops EXCEPT ![id].pc = "done", ![id].closerThrew = TRUE,
                                     ![id].result = PoolRejected]
            /\ poolBusy' = FALSE
            /\ UNCHANGED pool
    /\ UNCHANGED <<configured, poolQueue, nextContext, closeLog, actorVars, authVars, busVars, fleet, entityVars, adapterVars>>

\* acquire after `await this.closer(...)`: the closer returned or threw (the
\* catch only logs); the old entry is dropped and the factory is called
closerSettles ==
  \E id \in 1..Len(pops), ok \in BOOLEAN :
    /\ pops[id].pc = "closing"
    /\ pool' = NoEntry
    /\ pops' = [pops EXCEPT ![id].pc = "creating", ![id].closerThrew = ~ok,
                             ![id].factoryCalls = pops[id].factoryCalls + 1]
    /\ UNCHANGED <<configured, poolBusy, poolQueue, nextContext, closeLog, actorVars, authVars, busVars, fleet, entityVars, adapterVars>>

\* acquire after `await this.factory(...)` returned a resource
factoryReturns ==
  \E id \in 1..Len(pops) :
    /\ pops[id].pc = "creating"
    /\ nextContext' = nextContext + 1
    /\ pool' = AddHolder(NewEntry(nextContext + 1, pops[id].headless), pops[id].sid)
    /\ pops' = [pops EXCEPT ![id].pc = "done", ![id].result = PoolResolved(nextContext + 1)]
    /\ poolBusy' = FALSE
    /\ UNCHANGED <<configured, poolQueue, closeLog, actorVars, authVars, busVars, fleet, entityVars, adapterVars>>

factoryThrowsLeavesEntry ==
  \E id \in 1..Len(pops) :
    /\ pops[id].pc = "creating"
    /\ pool' = NewEntry(0, pops[id].headless)
    /\ pops' = [pops EXCEPT ![id].pc = "done", ![id].result = PoolRejected]
    /\ poolBusy' = FALSE
    /\ UNCHANGED <<configured, poolQueue, nextContext, closeLog, actorVars, authVars, busVars, fleet, entityVars, adapterVars>>

\* `await this.factory(...)` threw: the error leaves acquire through the lock
factoryThrows ==
  \E id \in 1..Len(pops) :
    /\ pops[id].pc = "creating"
    /\ pops' = [pops EXCEPT ![id].pc = "done", ![id].result = PoolRejected]
    /\ poolBusy' = FALSE
    /\ UNCHANGED <<configured, pool, poolQueue, nextContext, closeLog, actorVars, authVars, busVars, fleet, entityVars, adapterVars>>

forceCloseSettlesKeepsHeld ==
  \E id \in 1..Len(pops), ok \in BOOLEAN :
    /\ pops[id].pc = "forceClosing"
    /\ pool' = IF pool.refCount > 0 THEN pool ELSE NoEntry
    /\ pops' = [pops EXCEPT ![id].pc = "done", ![id].closerThrew = ~ok,
                             ![id].result = PoolResolved(0)]
    /\ poolBusy' = FALSE
    /\ UNCHANGED <<configured, poolQueue, nextContext, closeLog, actorVars, authVars, busVars, fleet, entityVars, adapterVars>>

\* forceClose after `await this.closer(...)` returned or threw: this.pool.clear()
forceCloseSettles ==
  \E id \in 1..Len(pops), ok \in BOOLEAN :
    /\ pops[id].pc = "forceClosing"
    /\ pool' = NoEntry
    /\ pops' = [pops EXCEPT ![id].pc = "done", ![id].closerThrew = ~ok,
                             ![id].result = PoolResolved(0)]
    /\ poolBusy' = FALSE
    /\ UNCHANGED <<configured, poolQueue, nextContext, closeLog, actorVars, authVars, busVars, fleet, entityVars, adapterVars>>

\* getStats().contextCount: this.pool.size
contextCount(p) == IF p.present THEN 1 ELSE 0

\* getStats().totalRefs: the sum of refCount over the entries
totalRefs(p) == IF p.present THEN p.refCount ELSE 0

hasContext(p, sid) == p.present /\ sid \in p.sessionIds

PoolNext ==
  \/ configure
  \/ acquire
  \/ release
  \/ forceClose
  \/ poolGrant
  \/ closerSettles
  \/ factoryReturns
  \/ factoryThrows
  \/ forceCloseSettles


\* ========================================================= AuthStateMachine
AuthStates == {"unauthenticated", "authenticating", "authenticated", "expired", "error"}

AuthEvents == {"START_AUTH", "AUTH_SUCCESS", "AUTH_FAILED", "COOKIES_EXPIRED",
               "STATE_LOADED", "STATE_CLEARED", "LOGOUT"}

HistoryLimit == 10

STATE_TRANSITIONS_Reentrant ==
  [unauthenticated |-> [START_AUTH |-> "authenticating", STATE_LOADED |-> "authenticated"],
   authenticating  |-> [START_AUTH |-> "authenticating", AUTH_SUCCESS |-> "authenticated",
                        AUTH_FAILED |-> "error"],
   authenticated   |-> [COOKIES_EXPIRED |-> "expired", LOGOUT |-> "unauthenticated",
                        STATE_CLEARED |-> "unauthenticated"],
   expired         |-> [START_AUTH |-> "authenticating", STATE_CLEARED |-> "unauthenticated"],
   error           |-> [START_AUTH |-> "authenticating", STATE_CLEARED |-> "unauthenticated"]]

STATE_TRANSITIONS_ErrorTrap ==
  [unauthenticated |-> [START_AUTH |-> "authenticating", STATE_LOADED |-> "authenticated"],
   authenticating  |-> [AUTH_SUCCESS |-> "authenticated", AUTH_FAILED |-> "error"],
   authenticated   |-> [COOKIES_EXPIRED |-> "expired", LOGOUT |-> "unauthenticated",
                        STATE_CLEARED |-> "unauthenticated"],
   expired         |-> [START_AUTH |-> "authenticating", STATE_CLEARED |-> "unauthenticated"],
   error           |-> <<>>]

STATE_TRANSITIONS ==
  [unauthenticated |-> [START_AUTH |-> "authenticating", STATE_LOADED |-> "authenticated"],
   authenticating  |-> [AUTH_SUCCESS |-> "authenticated", AUTH_FAILED |-> "error"],
   authenticated   |-> [COOKIES_EXPIRED |-> "expired", LOGOUT |-> "unauthenticated",
                        STATE_CLEARED |-> "unauthenticated"],
   expired         |-> [START_AUTH |-> "authenticating", STATE_CLEARED |-> "unauthenticated"],
   error           |-> [START_AUTH |-> "authenticating", STATE_CLEARED |-> "unauthenticated"]]

getNextStateStays(s, event) ==
  IF event \in DOMAIN STATE_TRANSITIONS[s] THEN STATE_TRANSITIONS[s][event] ELSE s

\* transitions[event] ?? null
getNextState(s, event) ==
  IF event \in DOMAIN STATE_TRANSITIONS[s] THEN STATE_TRANSITIONS[s][event] ELSE "null"

canTransition(s, event) == event \in DOMAIN STATE_TRANSITIONS[s]

needsReauth(s) == s = "unauthenticated" \/ s = "expired" \/ s = "error"

\* this._stateHistory.push(...); if (length > 10) shift()
PushCapped(h, entry) ==
  LET pushed == Append(h, entry)
  IN IF Len(pushed) > HistoryLimit THEN Tail(pushed) ELSE pushed

\* the notification the switch of dispatch emits for the event, if any
Specific(event) ==
  CASE event = "START_AUTH" -> <<"authStarted">>
    [] event = "AUTH_SUCCESS" -> <<"authSucceeded">>
    [] event = "AUTH_FAILED" -> <<"authFailed">>
    [] event = "COOKIES_EXPIRED" -> <<"expired">>
    [] event \in {"STATE_CLEARED", "LOGOUT"} -> <<"cleared">>
    [] OTHER -> <<>>

\* The emit calls of an accepted dispatch, in order; seen is this._state at
\* the time of the call, which is after the assignment.
Emissions(event, nextState, oldState) ==
  << [name |-> "stateChanged", args |-> <<nextState, oldState, event>>, seen |-> nextState] >>
  \o [k \in 1..Len(Specific(event)) |->
        [name |-> Specific(event)[k], args |-> <<>>, seen |-> nextState]]

\* waited (the operation found the lock taken and was queued) and emitted (the
\* emit calls the operation made) are bookkeeping
NewAuthOp(op, arg) ==
  [op |-> op, arg |-> arg, pc |-> "queued", result |-> "pending",
   waited |-> ~LockFree(authBusy, authQueue), emitted |-> <<>>]

\* The callback an auth operation runs under the "state" lock; it has no await.
AuthBody(id, a) ==
  LET o == a[id] IN
  CASE o.op = "dispatch" /\ getNextState(authState, o.arg) = "null" ->
         /\ aops' = [a EXCEPT ![id].pc = "executed", ![id].result = "false"]
         /\ UNCHANGED <<authState, lastEvent, stateHistory>>
    [] o.op = "dispatch" /\ getNextState(authState, o.arg) # "null" ->
         /\ authState' = getNextState(authState, o.arg)
         /\ lastEvent' = o.arg
         /\ stateHistory' = PushCapped(stateHistory,
                               [state |-> getNextState(authState, o.arg), event |-> o.arg])
         /\ aops' = [a EXCEPT ![id].pc = "executed", ![id].result = "true",
                              ![id].emitted = Emissions(o.arg, getNextState(authState, o.arg),
                                                        authState)]
    [] o.op = "forceState" ->
         /\ authState' = o.arg
         /\ stateHistory' = Append(stateHistory, [state |-> o.arg, event |-> "STATE_CLEARED"])
         /\ aops' = [a EXCEPT ![id].pc = "executed", ![id].result = "void"]
         /\ UNCHANGED lastEvent
    [] o.op = "reset" ->
         /\ authState' = "unauthenticated"
         /\ lastEvent' = "null"
         /\ stateHistory' = <<>>
         /\ aops' = [a EXCEPT ![id].pc = "executed", ![id].result = "void"]

\* an operation enters this.lock.acquire("state", ...)
AuthEnter(op, arg) ==
  LET id == Len(aops) + 1
      a == Append(aops, NewAuthOp(op, arg))
  IN IF LockFree(authBusy, authQueue)
     THEN /\ authBusy' = TRUE
          /\ AuthBody(id, a)
          /\ UNCHANGED authQueue
     ELSE /\ aops' = a
          /\ authQueue' = Append(authQueue, id)
          /\ UNCHANGED <<authBusy, authState, lastEvent, stateHistory>>

\* a call of dispatch, forceState or reset
AuthSubmit(op, arg) ==
  /\ Len(aops) < MaxAuthOps
  /\ AuthEnter(op, arg)
  /\ UNCHANGED <<initialState, awaitedCalls, actorVars, poolVars, busVars, fleet, entityVars, adapterVars>>

dispatch == \E event \in AuthEvents : AuthSubmit("dispatch", event)

forceState == \E s \in AuthStates : AuthSubmit("forceState", s)

authReset == AuthSubmit("reset", "")

\* the lock is released and the caller's promise settles with the callback's result
authSettle ==
  \E id \in 1..Len(aops) :
    /\ aops[id].pc = "executed"
    /\ aops' = [aops EXCEPT ![id].pc = "done"]
    /\ authBusy' = FALSE
    /\ UNCHANGED <<initialState, authState, lastEvent, stateHistory, authQueue, awaitedCalls,
                   actorVars, poolVars, busVars, fleet, entityVars, adapterVars>>

authGrant ==
  /\ ~authBusy
  /\ authQueue # <<>>
  /\ authBusy' = TRUE
  /\ authQueue' = RestWaiting(authQueue)
  /\ AuthBody(NextWaiting(authQueue), aops)
  /\ UNCHANGED <<initialState, awaitedCalls, actorVars, poolVars, busVars, fleet, entityVars, adapterVars>>

AuthNext ==
  \/ dispatch
  \/ forceState
  \/ authReset
  \/ authSettle
  \/ authGrant


\* ---- a caller that awaits every call before it makes the next one
AwaitedEvents == {"START_AUTH", "AUTH_FAILED"}

AwaitedStates == {"error"}

\* The lock is free when the call is made, so the callback runs at once; the
\* operations that have settled are dropped from the table.
AuthAwaited(op, arg) ==
  /\ awaitedCalls < MaxAwaitedCalls
  /\ ~authBusy
  /\ authQueue = <<>>
  /\ \A id \in 1..Len(aops) : aops[id].pc = "done"
  /\ awaitedCalls' = awaitedCalls + 1
  /\ authBusy' = TRUE
  /\ AuthBody(1, <<NewAuthOp(op, arg)>>)
  /\ UNCHANGED <<initialState, authQueue, actorVars, poolVars, busVars, fleet, entityVars, adapterVars>>

awaitedDispatch == \E event \in AwaitedEvents : AuthAwaited("dispatch", event)

awaitedForceState == \E s \in AwaitedStates : AuthAwaited("forceState", s)

awaitedReset == AuthAwaited("reset", "")

AuthAwaitedNext ==
  \/ awaitedDispatch
  \/ awaitedForceState
  \/ awaitedReset
  \/ authSettle


\* ================================================================= EventBus
\* An event type is the list of its ':'-separated parts.
EventTypes == { <<"auth", "started">>, <<"browser", "context", "created">> }

\* eventType.split(":")[0]
Category(eventType) == eventType[1]

Categories == { Category(t) : t \in EventTypes }

\* `${category}:*`
CategoryChannel(category) == <<category, "*">>

AllChannel == <<"*">>

Channels == EventTypes \cup { CategoryChannel(c) : c \in Categories } \cup {AllChannel}

\* Handlers passed by callers; hx throws when it is called.
Handlers == {"h1", "hx"}

Throwing == {"hx"}

\* h1 is an async function: a call returns a promise that settles later
AsyncHandlers == {"h1"}

maxHistorySize == 100

\* timeoutMs values; 0 stands for every falsy value (no timer is set)
Timeouts == {0, 50}

\* A listener of the emitter.  waiter is the waitFor call whose closure it is, or 0.
Listener(h, once, waiter) == [h |-> h, once |-> once, waiter |-> waiter]

recordHistoryDropsNewest(history, entry) ==
  LET pushed == Append(history, entry)
  IN IF Len(pushed) > maxHistorySize THEN SubSeq(pushed, 1, Len(pushed) - 1) ELSE pushed

\* this.history.push(...); if (length > maxHistorySize) shift()
recordHistory(history, entry) ==
  LET pushed == Append(history, entry)
  IN IF Len(pushed) > maxHistorySize THEN Tail(pushed) ELSE pushed

\* the listeners emitter.emit(channel, ...) is about to call, tagged with the tier
Tagged(channel, tier) ==
  [i \in 1..Len(listeners[channel]) |->
     [channel |-> channel, tier |-> tier, h |-> listeners[channel][i].h,
      once |-> listeners[channel][i].once, waiter |-> listeners[channel][i].waiter]]

\* the three emits of publish, in the order of the code
EmitOrder(eventType) ==
  Tagged(eventType, 1) \o Tagged(CategoryChannel(Category(eventType)), 2) \o Tagged(AllChannel, 3)

FirstThrow(calls) ==
  IF \E i \in 1..Len(calls) : calls[i].h \in Throwing
  THEN CHOOSE i \in 1..Len(calls) :
         /\ calls[i].h \in Throwing
         /\ \A j \in 1..(i - 1) : calls[j].h \notin Throwing
  ELSE 0

\* emit calls the listeners one after the other and does not catch: the first
\* listener that throws ends the emit, and with it publish
Called(calls) ==
  IF FirstThrow(calls) = 0 THEN calls ELSE SubSeq(calls, 1, FirstThrow(calls))

OffEveryone(ls, channel, h, waiter) == [ls EXCEPT ![channel] = <<>>]

\* emitter.off(channel, fn): every listener of the channel with that function goes
Off(ls, channel, h, waiter) ==
  [ls EXCEPT ![channel] = SelectSeq(ls[channel], LAMBDA e : ~(e.h = h /\ e.waiter = waiter))]

\* emit removes a once-listener right before it calls it
AfterOnce(ls, called) ==
  [ch \in Channels |->
     SelectSeq(ls[ch], LAMBDA e :
       ~(e.once /\ \E k \in 1..Len(called) :
            /\ called[k].channel = ch /\ called[k].once
            /\ called[k].h = e.h /\ called[k].waiter = e.waiter))]

WaitPending == [kind |-> "pending", seq |-> 0]
WaitResolved(seq) == [kind |-> "resolved", seq |-> seq]
WaitTimedOut == [kind |-> "rejected", seq |-> 0]

\* resolve / reject of a promise: only the first call has an effect
Settle(w, outcome) ==
  [w EXCEPT !.outcome = IF w.outcome.kind = "pending" THEN outcome ELSE w.outcome,
            !.settleCalls = w.settleCalls + 1]

\* the closure waitFor passes to once: if (timer) clearTimeout(timer); resolve(...)
WaiterCalled(w, seq) ==
  [Settle(w, WaitResolved(seq)) EXCEPT !.timer = IF w.timer = "armed" THEN "cleared" ELSE w.timer]

\* EventBus.publish, the whole call
publishEvent(eventType) ==
  LET seq == pubCount + 1
      calls == EmitOrder(eventType)
      called == Called(calls)
  IN /\ pubCount' = seq
     /\ busHistory' = recordHistory(busHistory, [eventType |-> eventType, seq |-> seq])
     /\ listeners' = AfterOnce(listeners, called)
     /\ delivered' = delivered \o [k \in 1..Len(called) |->
                        [seq |-> seq, h |-> called[k].h, tier |-> called[k].tier,
                         channel |-> called[k].channel, once |-> called[k].once,
                         waiter |-> called[k].waiter]]
     /\ waiters' = [w \in DOMAIN waiters |->
                      IF \E k \in 1..Len(called) : called[k].waiter = w
                      THEN WaiterCalled(waiters[w], seq)
                      ELSE waiters[w]]
     /\ pubs' = Append(pubs, [eventType |-> eventType, seq |-> seq,
                              rejected |-> FirstThrow(calls) # 0])
     /\ busOps' = busOps + 1
     /\ UNCHANGED <<closures, clearedAt, completed, actorVars, poolVars, authVars, fleet, entityVars, adapterVars>>

publish ==
  /\ busOps < MaxBusOps
  /\ \E eventType \in EventTypes : publishEvent(eventType)

\* emitter.on / emitter.once plus the closure that is returned
AddListener(channel, h, once) ==
  /\ busOps < MaxBusOps
  /\ listeners' = [listeners EXCEPT ![channel] = Append(listeners[channel], Listener(h, once, 0))]
  /\ closures' = Append(closures, [channel |-> channel, h |-> h, calls |-> 0])
  /\ busOps' = busOps + 1
  /\ UNCHANGED <<busHistory, pubCount, clearedAt, pubs, delivered, completed, waiters,
                 actorVars, poolVars, authVars, fleet, entityVars, adapterVars>>

subscribe == \E eventType \in EventTypes, h \in Handlers : AddListener(eventType, h, FALSE)

subscribeToCategory ==
  \E category \in Categories, h \in Handlers : AddListener(CategoryChannel(category), h, FALSE)

subscribeToAll == \E h \in Handlers : AddListener(AllChannel, h, FALSE)

once == \E eventType \in EventTypes, h \in Handlers : AddListener(eventType, h, TRUE)

\* a closure returned by subscribe, subscribeToCategory, subscribeToAll or once is called
unsubscribe ==
  \E c \in 1..Len(closures) :
    /\ busOps < MaxBusOps
    /\ listeners' = Off(listeners, closures[c].channel, closures[c].h, 0)
    /\ closures' = [closures EXCEPT ![c].calls = closures[c].calls + 1]
    /\ busOps' = busOps + 1
    /\ UNCHANGED <<busHistory, pubCount, clearedAt, pubs, delivered, completed, waiters,
                   actorVars, poolVars, authVars, fleet, entityVars, adapterVars>>

ListenerCount(ls, channel) == Len(ls[channel])

\* EventBus.waitFor: the once subscription, then the timer when timeoutMs is truthy
waitFor ==
  \E eventType \in EventTypes, timeoutMs \in Timeouts :
    /\ busOps < MaxBusOps
    /\ LET w == Len(waiters) + 1
       IN /\ listeners' = [listeners EXCEPT ![eventType] =
                             Append(listeners[eventType], Listener("waitFor", TRUE, w))]
          /\ waiters' = Append(waiters,
                          [eventType |-> eventType, timeoutMs |-> timeoutMs,
                           timer |-> IF timeoutMs # 0 THEN "armed" ELSE "none",
                           outcome |-> WaitPending, settleCalls |-> 0,
                           countBefore |-> ListenerCount(listeners, eventType)])
    /\ busOps' = busOps + 1
    /\ UNCHANGED <<closures, busHistory, pubCount, clearedAt, pubs, delivered, completed,
                   actorVars, poolVars, authVars, fleet, entityVars, adapterVars>>

timerFiresNoCleanup ==
  \E w \in 1..Len(waiters) :
    /\ waiters[w].timer = "armed"
    /\ waiters' = [waiters EXCEPT ![w] = [Settle(waiters[w], WaitTimedOut) EXCEPT !.timer = "fired"]]
    /\ UNCHANGED <<listeners, closures, busHistory, pubCount, clearedAt, pubs, delivered, completed, busOps,
                   actorVars, poolVars, authVars, fleet, entityVars, adapterVars>>

\* the setTimeout callback of waitFor: cleanup(); reject(new Error("Timeout ..."))
timerFires ==
  \E w \in 1..Len(waiters) :
    /\ waiters[w].timer = "armed"
    /\ listeners' = Off(listeners, waiters[w].eventType, "waitFor", w)
    /\ waiters' = [waiters EXCEPT ![w] = [Settle(waiters[w], WaitTimedOut) EXCEPT !.timer = "fired"]]
    /\ UNCHANGED <<closures, busHistory, pubCount, clearedAt, pubs, delivered, completed, busOps,
                   actorVars, poolVars, authVars, fleet, entityVars, adapterVars>>

\* this.history.length = 0 (a call on an empty history changes nothing)
clearHistory ==
  /\ busHistory # <<>>
  /\ busHistory' = <<>>
  /\ clearedAt' = pubCount
  /\ UNCHANGED <<listeners, closures, pubCount, pubs, delivered, completed, waiters, busOps,
                 actorVars, poolVars, authVars, fleet, entityVars, adapterVars>>

removeAllListeners ==
  /\ busOps < MaxBusOps
  /\ listeners' = [ch \in Channels |-> <<>>]
  /\ busOps' = busOps + 1
  /\ UNCHANGED <<closures, busHistory, pubCount, clearedAt, pubs, delivered, completed, waiters,
                 actorVars, poolVars, authVars, fleet, entityVars, adapterVars>>

\* publish calls of the history specification: one event type, no subscriber
\* the promise an asynchronous handler returned to emit, which drops it, settles
handlerCompletes ==
  \E k \in 1..Len(delivered) :
    /\ delivered[k].h \in AsyncHandlers
    /\ delivered[k].waiter = 0
    /\ k \notin completed
    /\ completed' = completed \cup {k}
    /\ UNCHANGED <<listeners, closures, busHistory, pubCount, clearedAt, pubs, delivered,
                   waiters, busOps, actorVars, poolVars, authVars, fleet, entityVars, adapterVars>>

publishMany ==
  /\ pubCount < MaxPublishes
  /\ publishEvent(<<"auth", "started">>)

BusInit ==
  /\ listeners = [ch \in Channels |-> <<>>]
  /\ closures = <<>>
  /\ busHistory = <<>>
  /\ pubCount = 0
  /\ clearedAt = 0
  /\ pubs = <<>>
  /\ delivered = <<>>
  /\ completed = {}
  /\ waiters = <<>>
  /\ busOps = 0

BusNext ==
  \/ publish
  \/ subscribe
  \/ subscribeToCategory
  \/ subscribeToAll
  \/ once
  \/ unsubscribe
  \/ waitFor
  \/ timerFires
  \/ clearHistory
  \/ removeAllListeners

AsyncNext ==
  \/ publish
  \/ subscribe
  \/ subscribeToCategory
  \/ subscribeToAll
  \/ handlerCompletes

HistoryNext ==
  \/ publishMany
  \/ clearHistory


\* ============================================== several SessionActors at once
\* Each session has its own actor, and each actor its own AsyncLock.  The
\* actors are the ones ActorSessionAdapter builds: the question handler is
\* set, no event bus is given.
Actors == {"a1", "a2"}

NewActor ==
  [state |-> create, processing |-> FALSE, queueLength |-> 0,
   busy |-> FALSE, queue |-> <<>>, msgs |-> <<>>, emitted |-> <<>>, swaps |-> <<>>]

\* One stateChanged emission, or one replacement of this.state (swaps is
\* bookkeeping): the new entity and the old one.
Change(new, old) == [new |-> new, old |-> old]

HoldsAny(f, a) == \E b \in Actors : f[b].busy

\* whether a callback holds the lock of actor a (this.lock of that instance)
Holds(f, a) == f[a].busy

\* messages submitted so far (there are two actors)
FleetMsgCount(f) == Len(f["a1"].msgs) + Len(f["a2"].msgs)

\* a handler of some actor has been invoked and will never return
SomeStuck(f) == \E b \in Actors : \E i \in 1..Len(f[b].msgs) : f[b].msgs[i].pc = "stuck"

\* processMessage of actor record r for its message id, up to the first await
BeginOn(r, id) ==
  LET msg == r.msgs[id]
      oldState == r.state
  IN
  CASE msg.type = "ASK_QUESTION" /\ ~canAcceptMessage(r.state) ->
         [r EXCEPT !.processing = TRUE, !.msgs[id].pc = "handled",
                   !.msgs[id].outcome = "rejected"]
    [] msg.type = "ASK_QUESTION" /\ canAcceptMessage(r.state) ->
         LET processingState == startProcessing(r.state, "1")
             waitingState == startWaiting(processingState)
         IN [r EXCEPT !.processing = TRUE, !.msgs[id].pc = "awaitHandler",
                      !.msgs[id].oldState = oldState,
                      !.state = waitingState,
                      !.emitted = r.emitted \o <<Change(processingState, oldState),
                                                 Change(waitingState, oldState)>>,
                      !.swaps = r.swaps \o <<Change(processingState, r.state),
                                             Change(waitingState, processingState)>>]
    [] msg.type = "RESET" ->
         [r EXCEPT !.processing = TRUE, !.msgs[id].pc = "handled",
                   !.msgs[id].outcome = "resolved", !.state = reset(r.state),
                   !.emitted = Append(r.emitted, Change(reset(r.state), oldState)),
                   !.swaps = Append(r.swaps, Change(reset(r.state), r.state))]
    [] msg.type = "CLOSE" ->
         [r EXCEPT !.processing = TRUE, !.msgs[id].pc = "handled",
                   !.msgs[id].outcome = "resolved", !.state = close(r.state),
                   !.emitted = Append(r.emitted, Change(close(r.state), oldState)),
                   !.swaps = Append(r.swaps, Change(close(r.state), r.state))]
    [] msg.type = "TOUCH" ->
         \* handleTouch replaces the entity and emits nothing
         [r EXCEPT !.processing = FALSE, !.msgs[id].pc = "processed",
                   !.state = touch(r.state),
                   !.swaps = Append(r.swaps, Change(touch(r.state), r.state))]

AfterHandlerSwallows(r, id, ok) ==
  LET newState == IF ok THEN completeWithResponse(r.state, "r1") ELSE markError(r.state, "boom")
  IN [r EXCEPT !.msgs[id].pc = "handled",
               !.msgs[id].outcome = IF ok THEN "resolved" ELSE "pending",
               !.state = newState,
               !.emitted = Append(r.emitted, Change(newState, r.msgs[id].oldState)),
               !.swaps = Append(r.swaps, Change(newState, r.state))]

\* handleAskQuestion of actor record r after its handler returned (ok) or threw
AfterHandler(r, id, ok) ==
  LET newState == IF ok THEN completeWithResponse(r.state, "r1") ELSE markError(r.state, "boom")
  IN [r EXCEPT !.msgs[id].pc = "handled",
               !.msgs[id].outcome = IF ok THEN "resolved" ELSE "rejected",
               !.state = newState,
               !.emitted = Append(r.emitted, Change(newState, r.msgs[id].oldState)),
               !.swaps = Append(r.swaps, Change(newState, r.state))]

FleetFrame == UNCHANGED <<actorVars, poolVars, authVars, busVars, entityVars, adapterVars>>

\* ask / reset / close / touch on actor a: SessionActor.enqueue
fleetEnqueue(a) ==
  \E type \in MsgTypes :
    /\ FleetMsgCount(fleet) < MaxFleetMsgs
    /\ LET id == Len(fleet[a].msgs) + 1
           r == [fleet[a] EXCEPT
                   !.queueLength = fleet[a].queueLength + 1,
                   !.msgs = Append(fleet[a].msgs,
                              [type |-> type, pc |-> "queued", outcome |-> "pending",
                               whileStuck |-> SomeStuck(fleet), oldState |-> create])]
       IN fleet' = [fleet EXCEPT ![a] =
                      IF LockFree(Holds(fleet, a), fleet[a].queue)
                      THEN BeginOn([r EXCEPT !.busy = TRUE], id)
                      ELSE [r EXCEPT !.queue = Append(r.queue, id)]]
    /\ FleetFrame

\* the lock of actor a hands the key to its next waiting callback
fleetGrant(a) ==
  /\ ~Holds(fleet, a)
  /\ fleet[a].queue # <<>>
  /\ fleet' = [fleet EXCEPT ![a] =
                 BeginOn([fleet[a] EXCEPT !.busy = TRUE, !.queue = RestWaiting(fleet[a].queue)],
                         NextWaiting(fleet[a].queue))]
  /\ FleetFrame

\* the question handler of actor a returns or throws
fleetHandlerSettles(a) ==
  \E id \in 1..Len(fleet[a].msgs), ok \in BOOLEAN :
    /\ fleet[a].msgs[id].pc = "awaitHandler"
    /\ fleet' = [fleet EXCEPT ![a] = AfterHandler(fleet[a], id, ok)]
    /\ FleetFrame

\* the question handler of actor a turns out to be one that never returns
fleetHandlerHangs(a) ==
  \E id \in 1..Len(fleet[a].msgs) :
    /\ fleet[a].msgs[id].pc = "awaitHandler"
    /\ fleet' = [fleet EXCEPT ![a].msgs[id].pc = "stuck"]
    /\ FleetFrame

\* processMessage of actor a after its await, then the end of the lock callback
fleetMessageEnds(a) ==
  \E id \in 1..Len(fleet[a].msgs) :
    /\ \/ /\ fleet[a].msgs[id].pc = "handled"
          /\ fleet' = [fleet EXCEPT ![a].msgs[id].pc = "processed", ![a].processing = FALSE]
       \/ /\ fleet[a].msgs[id].pc = "processed"
          /\ fleet' = [fleet EXCEPT ![a].msgs[id].pc = "done", ![a].busy = FALSE,
                                    ![a].queueLength = fleet[a].queueLength - 1]
    /\ FleetFrame

FleetInit == fleet = [a \in Actors |-> NewActor]

FleetNext ==
  \E a \in Actors :
    \/ fleetEnqueue(a)
    \/ fleetGrant(a)
    \/ fleetHandlerSettles(a)
    \/ fleetHandlerHangs(a)
    \/ fleetMessageEnds(a)

\* what the event loop guarantees: a callback that can run does run, and a
\* handler that is not stuck settles
FleetFairness ==
  \A a \in Actors :
    /\ WF_vars(fleetGrant(a))
    /\ WF_vars(fleetHandlerSettles(a))
    /\ WF_vars(fleetMessageEnds(a))


\* ===================================================== SessionEntity objects
\* An object of the heap is an entity together with its lastActivityAt.
EntityMethods == {"startProcessing", "startWaiting", "completeWithResponse",
                  "markError", "reset", "close", "touch"}

AllowedAlways(method, e) == TRUE

\* the status test at the head of a transition method
Allowed(method, e) ==
  CASE method = "startProcessing" -> canAcceptMessage(e)
    [] method = "startWaiting" -> e.status = "processing"
    [] method = "completeWithResponse" -> canComplete(e)
    [] OTHER -> TRUE

\* the snapshot a transition method passes to the constructor
Apply(method, e, arg, time) ==
  [ (CASE method = "startProcessing" -> startProcessing(e, arg)
       [] method = "startWaiting" -> startWaiting(e)
       [] method = "completeWithResponse" -> completeWithResponse(e, arg)
       [] method = "markError" -> markError(e, arg)
       [] method = "reset" -> reset(e)
       [] method = "close" -> close(e)
       [] method = "touch" -> touch(e))
    EXCEPT !.lastActivityAt = time ]

entityCallInPlace ==
  \E method \in EntityMethods, i \in 1..Len(heap), arg \in Questions :
    /\ Len(entityCalls) < MaxEntityCalls
    /\ now' = now + 1
    /\ IF Allowed(method, heap[i])
       THEN /\ heap' = [heap EXCEPT ![i] = Apply(method, heap[i], arg, now')]
            /\ entityCalls' = Append(entityCalls, [method |-> method, arg |-> arg, receiver |-> i,
                                       result |-> i, threw |-> ""])
       ELSE /\ heap' = heap
            /\ entityCalls' = Append(entityCalls, [method |-> method, arg |-> arg, receiver |-> i,
                                       result |-> 0, threw |-> heap[i].status])
    /\ UNCHANGED <<actorVars, poolVars, authVars, busVars, fleet, adapterVars>>

\* a transition method is called on an object of the heap: it throws an error
\* naming the status, or constructs a new frozen object and returns it
entityCall ==
  \E method \in EntityMethods, i \in 1..Len(heap), arg \in Questions :
    /\ Len(entityCalls) < MaxEntityCalls
    /\ now' = now + 1
    /\ IF Allowed(method, heap[i])
       THEN /\ heap' = Append(heap, Apply(method, heap[i], arg, now'))
            /\ entityCalls' = Append(entityCalls, [method |-> method, arg |-> arg, receiver |-> i,
                                       result |-> Len(heap) + 1, threw |-> ""])
       ELSE /\ heap' = heap
            /\ entityCalls' = Append(entityCalls, [method |-> method, arg |-> arg, receiver |-> i,
                                       result |-> 0, threw |-> heap[i].status])
    /\ UNCHANGED <<actorVars, poolVars, authVars, busVars, fleet, adapterVars>>

\* SessionEntity.create at time 0
EntityInit ==
  /\ heap = << [status |-> "idle", messages |-> <<>>, errorMessage |-> NoError,
                lastActivityAt |-> 0] >>
  /\ entityCalls = <<>>
  /\ now = 0

EntityNext == entityCall


\* ====================================================== ActorSessionAdapter
\* askWithStreaming: this.browserSession.askWithStreaming(...) is called at
\* once; the actor is not involved
askWithStreaming ==
  \E q \in Questions :
    /\ Len(streams) < MaxStreams
    /\ streams' = Append(streams, [question |-> q, pc |-> "running"])
    /\ UNCHANGED <<actorVars, poolVars, authVars, busVars, fleet, entityVars, setups>>

\* browserSession.askWithStreaming returns or throws
streamingSettles ==
  \E k \in 1..Len(streams) :
    /\ streams[k].pc = "running"
    /\ streams' = [streams EXCEPT ![k].pc = "done"]
    /\ UNCHANGED <<actorVars, poolVars, authVars, busVars, fleet, entityVars, setups>>

\* ======================================================== GoogleAuthAdapter
SetupFrame ==
  UNCHANGED <<initialState, awaitedCalls, actorVars, poolVars, busVars, fleet, entityVars, streams>>

\* setupAuth is called and waits for loadAuthModules
setupAuth ==
  /\ Len(setups) < MaxSetups
  /\ setups' = Append(setups, [pc |-> "loading", first |-> 0, second |-> 0,
                               success |-> FALSE, atReturn |-> "null"])
  /\ UNCHANGED <<actorVars, poolVars, authVars, busVars, fleet, entityVars, streams>>

\* await this.stateMachine.dispatch("START_AUTH", { method })
setupStarts ==
  \E i \in 1..Len(setups) :
    /\ setups[i].pc = "loading"
    /\ AuthEnter("dispatch", "START_AUTH")
    /\ setups' = [setups EXCEPT ![i].pc = "starting", ![i].first = Len(aops) + 1]
    /\ SetupFrame

\* the START_AUTH dispatch has returned (its result is dropped) and
\* performSetup gives true, gives false or throws: AUTH_SUCCESS or
\* AUTH_FAILED is dispatched
performSetupSettles ==
  \E i \in 1..Len(setups), outcome \in {"true", "false", "throws"} :
    /\ setups[i].pc = "starting"
    /\ aops[setups[i].first].pc = "done"
    /\ AuthEnter("dispatch", IF outcome = "true" THEN "AUTH_SUCCESS" ELSE "AUTH_FAILED")
    /\ setups' = [setups EXCEPT ![i].pc = "finishing", ![i].second = Len(aops) + 1,
                                ![i].success = (outcome = "true")]
    /\ SetupFrame

\* the second dispatch has returned (its result is dropped) and setupAuth returns
setupReturns ==
  \E i \in 1..Len(setups) :
    /\ setups[i].pc = "finishing"
    /\ aops[setups[i].second].pc = "done"
    /\ setups' = [setups EXCEPT ![i].pc = "returned", ![i].atReturn = authState]
    /\ UNCHANGED <<actorVars, poolVars, authVars, busVars, fleet, entityVars, streams>>

SetupNext ==
  \/ setupAuth
  \/ setupStarts
  \/ performSetupSettles
  \/ setupReturns
  \/ authSettle
  \/ authGrant

\* the actor after its constructor, and after setQuestionHandler when handler
ActorConstructed(handler) ==
  /\ state = create
  /\ questionHandler = handler
  /\ eventBus = FALSE
  /\ processing = FALSE
  /\ queueLength = 0
  /\ msgs = <<>>
  /\ actorBusy = FALSE
  /\ actorQueue = <<>>
  /\ startOrder = <<>>
  /\ handlerCalls = <<>>
  /\ published = <<>>

ActorInit == ActorConstructed(FALSE)

AdapterInit ==
  /\ streams = <<>>
  /\ setups = <<>>

PoolInit ==
  /\ configured = FALSE
  /\ pool = NoEntry
  /\ poolBusy = FALSE
  /\ poolQueue = <<>>
  /\ pops = <<>>
  /\ nextContext = 0
  /\ closeLog = <<>>

\* constructor(initialState = "unauthenticated")
AuthInit(s0) ==
  /\ initialState = s0
  /\ authState = initialState
  /\ lastEvent = "null"
  /\ stateHistory = <<>>
  /\ authBusy = FALSE
  /\ authQueue = <<>>
  /\ aops = <<>>
  /\ awaitedCalls = 0

Init == ActorInit /\ PoolInit /\ AuthInit("unauthenticated") /\ BusInit /\ FleetInit /\ EntityInit
        /\ AdapterInit

\* the state after the constructor of ActorSessionAdapter
ConstructedInit ==
  /\ ActorConstructed(TRUE) /\ PoolInit /\ AuthInit("unauthenticated") /\ BusInit
  /\ FleetInit /\ EntityInit /\ AdapterInit

\* the auth machine constructed with any initial state
InitAnyAuth ==
  ActorInit /\ PoolInit /\ BusInit /\ FleetInit /\ EntityInit /\ AdapterInit /\ \E s0 \in AuthStates : AuthInit(s0)

ActorNext ==
  \/ ask
  \/ actorReset
  \/ actorClose
  \/ actorTouch
  \/ setQuestionHandler
  \/ setEventBus
  \/ actorGrant
  \/ handlerReturns
  \/ handlerThrows
  \/ processMessageEnd
  \/ lockCallbackEnd

ActorSpec == Init /\ [][ActorNext]_vars

PoolSpec == Init /\ [][PoolNext]_vars

AuthSpec == InitAnyAuth /\ [][AuthNext]_vars

BusSpec == Init /\ [][BusNext]_vars

EntitySpec == Init /\ [][EntityNext]_vars

AdapterNext ==
  \/ ask
  \/ actorReset
  \/ actorClose
  \/ askWithStreaming
  \/ streamingSettles
  \/ actorGrant
  \/ handlerReturns
  \/ handlerThrows
  \/ processMessageEnd
  \/ lockCallbackEnd

AdapterSpec == ConstructedInit /\ [][AdapterNext]_vars

SetupSpec == InitAnyAuth /\ [][SetupNext]_vars

AsyncSpec == Init /\ [][AsyncNext]_vars

FleetSpec == Init /\ [][FleetNext]_vars /\ FleetFairness

AuthAwaitedSpec == Init /\ [][AuthAwaitedNext]_vars

HistorySpec == Init /\ [][HistoryNext]_vars

\* ================================================= properties: SessionActor
Ids == 1..Len(msgs)

\* messages whose processing has begun and whose lock callback has not returned
InProcess == { id \in Ids : msgs[id].pc \in {"awaitHandler", "handled", "processed"} }

IsStrictlyIncreasing(seq) == \A i, j \in 1..Len(seq) : i < j => seq[i] < seq[j]

HandlerFailed(id) == msgs[id].thrown # NoThrow

\* C1: messages of one actor are processed in submission order, for any mix of
\* ask, reset, close and touch: the k-th message to begin processing is the
\* k-th message submitted, and the question handler is invoked for the asks in
\* the order the asks were submitted.
C1_FifoOrder ==
  /\ \A k \in 1..Len(startOrder) : startOrder[k] = k
  /\ IsStrictlyIncreasing(handlerCalls)
  /\ \A k \in 1..Len(handlerCalls) : msgs[handlerCalls[k]].type = "ASK_QUESTION"

\* three asks submitted back to back (each found the earlier ones pending),
\* all three handed to the handler
C1_Witness ==
  /\ Len(handlerCalls) >= 3
  /\ \A id \in 1..3 : msgs[id].type = "ASK_QUESTION" /\ msgs[id].ahead = id - 1

\* C2: at no time are two messages of the actor in process; a message begins
\* only after every message submitted before it has finished.
C2_OneAtATime ==
  /\ Cardinality(InProcess) <= 1
  /\ \A id \in InProcess : \A j \in 1..(id - 1) : msgs[j].pc = "done"

\* the second of two asks submitted without awaiting is being handled
C2_Witness ==
  /\ Len(msgs) >= 2
  /\ msgs[2].type = "ASK_QUESTION" /\ msgs[2].ahead >= 1
  /\ msgs[2].pc = "awaitHandler"

\* the step in which the handler of message id fails with f
HandlerFailsStep(id) ==
  /\ id \in Ids
  /\ msgs[id].pc = "awaitHandler"
  /\ msgs'[id].pc = "handled"
  /\ msgs'[id].thrown # NoThrow

LastOf(seq) == seq[Len(seq)]

\* C8 as claimed: a failing handler puts the entity in status error with the
\* failure's message, keeps the message log, publishes session:error and
\* rejects the caller with the original failure.
C8_AsClaimed ==
  [][\A id \in Ids : HandlerFailsStep(id) =>
        /\ state'.status = "error"
        /\ state'.errorMessage = msgs'[id].thrown.message
        /\ state'.messages = state.messages
        /\ Len(published') = Len(published) + 1
        /\ LastOf(published').type = "session:error"
        /\ msgs'[id].outcome = Rejected(msgs'[id].thrown)]_vars

\* C8 (amended): a failing handler puts the entity in status error with the
\* failure's message and keeps the message log including the user message just
\* appended; session:error is published when an event bus is set (nothing is
\* published otherwise); the caller is rejected with the original failure when
\* it is an Error, and with a new Error carrying its string form when it is not.
C8_HandlerFailure ==
  [][\A id \in Ids : HandlerFailsStep(id) =>
        /\ state'.status = "error"
        /\ state'.errorMessage = msgs'[id].thrown.message
        /\ state'.messages = state.messages
        /\ LastOf(state'.messages) = [role |-> "user", content |-> msgs[id].question]
        /\ IF eventBus
           THEN /\ Len(published') = Len(published) + 1
                /\ LastOf(published').type = "session:error"
                /\ LastOf(published').text = msgs'[id].thrown.message
           ELSE published' = published
        /\ msgs'[id].outcome.kind = "rejected"
        /\ msgs'[id].outcome.value.isError
        /\ msgs'[id].outcome.value.message = msgs'[id].thrown.message
        /\ msgs'[id].thrown.isError => msgs'[id].outcome.value = msgs'[id].thrown
        /\ ~msgs'[id].thrown.isError => msgs'[id].outcome.value.origin = "actor"]_vars

\* a handler threw a non-Error value while an event bus was set
C8_Witness ==
  \E id \in Ids :
    /\ HandlerFailed(id)
    /\ ~msgs[id].thrown.isError
    /\ msgs[id].outcome.kind = "rejected"
    /\ eventBus
    /\ state.status = "error"

\* C9 as claimed: after an ask whose handler failed, a later ask is processed
\* by the handler; the actor itself never rejects it.
C9_AsClaimed ==
  \A id \in Ids :
    ( /\ msgs[id].type = "ASK_QUESTION"
      /\ \E j \in 1..(id - 1) : HandlerFailed(j)
      /\ msgs[id].outcome.kind = "rejected" )
    => HandlerFailed(id)

\* the step in which message id begins processing
BeginsStep(id) ==
  /\ id \in 1..Len(msgs')
  /\ (id > Len(msgs) \/ msgs[id].pc = "queued")
  /\ msgs'[id].pc # "queued"

\* C9 (amended): a handler failure is not fatal for the actor, which goes on
\* processing later messages, but it leaves the entity in status error: an
\* ask processed while the status is still error is rejected by the actor
\* with an error naming that status and the handler is not invoked; an ask
\* processed after a reset (status idle again) is handed to the handler and,
\* when the handler succeeds, resolves with the handler's response.
C9_UsableAfterFailure ==
  [][\A id \in 1..Len(msgs') :
       ( /\ msgs'[id].type = "ASK_QUESTION"
         /\ \E j \in 1..(id - 1) : j \in Ids /\ HandlerFailed(j) )
       =>
       /\ (BeginsStep(id) /\ state.status = "idle") =>
             /\ msgs'[id].pc = "awaitHandler"
             /\ handlerCalls' = Append(handlerCalls, id)
       /\ (BeginsStep(id) /\ state.status # "idle") =>
             /\ msgs'[id].outcome = Rejected(Failure(TRUE, state.status, "actor"))
             /\ handlerCalls' = handlerCalls
             /\ state' = state
       /\ \A r \in Responses :
            ( /\ id \in Ids
              /\ msgs[id].pc = "awaitHandler"
              /\ msgs'[id].pc = "handled"
              /\ ~HandlerFailed(id)'
              /\ LastOf(state'.messages).content = r )
            => msgs'[id].outcome = Resolved(r)]_vars

\* an ask failed, and a later ask was answered
C9_Witness ==
  \E j, id \in Ids :
    /\ j < id
    /\ HandlerFailed(j)
    /\ msgs[id].type = "ASK_QUESTION"
    /\ msgs[id].outcome.kind = "resolved"
    /\ msgs[id].pc = "done"

Settled(id) == msgs[id].type = "TOUCH" \/ msgs[id].outcome.kind # "pending"

NotStarted == { id \in Ids : msgs[id].pc = "queued" }

PoolIds == 1..Len(pops)

\* C3: in every reachable state each pooled entry has refCount equal to the
\* number of session ids in its holder set, repeated acquires by one session
\* id included.
C3_RefCountIsHolders ==
  pool.present => pool.refCount = Cardinality(pool.sessionIds)

\* C4: outside forceClose the pool never passes a resource to the closer while
\* the resource's entry has refCount > 0.
C4_NoCloseWhileHeld ==
  \A k \in 1..Len(closeLog) : closeLog[k].op # "forceClose" => closeLog[k].refCount = 0

AcquireDone(id) ==
  /\ pops[id].op = "acquire"
  /\ pops[id].pc = "done"
  /\ pops[id].found.present

\* the step in which operation id gets the lock
PoolBeginsStep(id) ==
  /\ id \in 1..Len(pops')
  /\ (id > Len(pops) \/ pops[id].pc = "queued")
  /\ pops'[id].pc # "queued"

\* C7: an acquire that finds an entry of the requested mode returns that
\* entry's resource without calling the factory or the closer and adds one to
\* refCount (a second, distinct session gives refCount 2); an acquire that
\* finds an entry of the other mode calls the closer exactly once, on the old
\* resource, calls the factory exactly once and, the factory succeeding,
\* returns the resource just created.
C7_ReuseOrRecreate ==
  /\ [](\A id \in PoolIds : AcquireDone(id) =>
          IF pops[id].found.headless = pops[id].headless
          THEN /\ pops[id].result = PoolResolved(pops[id].found.context)
               /\ pops[id].factoryCalls = 0
               /\ pops[id].closed = <<>>
          ELSE /\ pops[id].closed = <<pops[id].found.context>>
               /\ pops[id].factoryCalls = 1
               /\ pops[id].result.kind = "resolved" =>
                    /\ pops[id].result.context > pops[id].found.context
                    /\ \A j \in 1..(id - 1) : pops[j].result.context # pops[id].result.context)
  /\ [][\A id \in 1..Len(pops') :
          ( /\ PoolBeginsStep(id)
            /\ pops'[id].op = "acquire"
            /\ pool.present
            /\ pool.headless = pops'[id].headless )
          => /\ pool'.refCount = pool.refCount + 1
             /\ pool'.context = pool.context
             /\ nextContext' = nextContext
             /\ closeLog' = closeLog
             /\ ( /\ pool.refCount = 1
                  /\ Cardinality(pool.sessionIds) = 1
                  /\ pops'[id].sid \notin pool.sessionIds )
                  => /\ pool'.refCount = 2
                     /\ pool'.sessionIds = pool.sessionIds \cup {pops'[id].sid}]_vars

\* s1 and s2 share one resource, then a third acquire with the other mode
\* replaced it by a new one
C7_Witness ==
  \E a, b, c \in PoolIds :
    /\ a < b /\ b < c
    /\ AcquireDone(b) /\ pops[b].found.headless = pops[b].headless
    /\ pops[b].found.refCount = 1 /\ pops[b].sid \notin pops[b].found.sessionIds
    /\ pops[b].result = pops[a].result
    /\ AcquireDone(c) /\ pops[c].found.headless # pops[c].headless
    /\ pops[c].found.refCount = 2
    /\ pops[c].result.kind = "resolved"
    /\ pool.context = pops[c].result.context

\* ============================================= properties: AuthStateMachine
AuthIds == 1..Len(aops)

\* the step in which the callback of operation id runs
AuthRunsStep(id) ==
  /\ id \in 1..Len(aops')
  /\ (id > Len(aops) \/ aops[id].pc = "queued")
  /\ aops'[id].pc = "executed"

\* C5: dispatch(event) returns true and sets the state to table[state][event]
\* for every (state, event) pair of the transition table; for every other pair
\* it returns false and leaves state, lastEvent and history unchanged.
\* unauthenticated + AUTH_SUCCESS is rejected, unauthenticated + START_AUTH
\* gives authenticating.
C5_DispatchFollowsTable ==
  [][\A id \in 1..Len(aops') :
       (AuthRunsStep(id) /\ aops'[id].op = "dispatch") =>
         LET event == aops'[id].arg IN
         /\ IF event \in DOMAIN STATE_TRANSITIONS[authState]
            THEN /\ aops'[id].result = "true"
                 /\ authState' = STATE_TRANSITIONS[authState][event]
            ELSE /\ aops'[id].result = "false"
                 /\ UNCHANGED <<authState, lastEvent, stateHistory>>
         /\ (authState = "unauthenticated" /\ event = "AUTH_SUCCESS") =>
               (aops'[id].result = "false" /\ authState' = "unauthenticated")
         /\ (authState = "unauthenticated" /\ event = "START_AUTH") =>
               (aops'[id].result = "true" /\ authState' = "authenticating")]_vars

\* a dispatch was accepted and a later one rejected, after a transition had
\* already been recorded
C5_Witness ==
  \E i, j \in AuthIds :
    /\ i < j
    /\ aops[i].op = "dispatch" /\ aops[i].result = "true"
    /\ aops[j].op = "dispatch" /\ aops[j].result = "false"
    /\ lastEvent = aops[i].arg
    /\ Len(stateHistory) = 1

StartAuthRace ==
  /\ Len(aops) >= 2
  /\ needsReauth(initialState)
  /\ \A id \in AuthIds : aops[id].op = "dispatch" /\ aops[id].arg = "START_AUTH"

Accepted == { id \in AuthIds : aops[id].result = "true" }

Refused == { id \in AuthIds : aops[id].result = "false" }

\* C6: when N dispatch(START_AUTH) calls race from one source state that
\* needs re-authentication, exactly one returns true, all the others return
\* false, the final state is authenticating, and a refused dispatch is never
\* run again.
C6_OneStartAuthWins ==
  /\ [](StartAuthRace =>
          /\ Cardinality(Accepted) <= 1
          /\ (\A id \in AuthIds : aops[id].pc = "done") =>
                /\ Cardinality(Accepted) = 1
                /\ Cardinality(Refused) = Len(aops) - 1
                /\ authState = "authenticating"
                /\ authQueue = <<>>)
  /\ [][\A id \in AuthIds :
          aops[id].result = "false" =>
            /\ aops'[id].result = "false"
            /\ aops'[id].pc # "queued"
            /\ aops[id].pc = "done" => aops'[id] = aops[id]]_vars

\* three START_AUTH dispatches were pending together and all have returned
C6_Witness ==
  /\ StartAuthRace
  /\ Len(aops) >= 3
  /\ \A id \in AuthIds : aops[id].pc = "done"
  /\ \A id \in AuthIds : id > 1 => aops[id].waited

\* the step in which the factory call of acquire id fails
FactoryFailsStep(id) ==
  /\ id \in PoolIds
  /\ pops[id].pc = "creating"
  /\ pops'[id].pc = "done"
  /\ pops'[id].result.kind = "rejected"

\* C11: when the factory fails during acquire, on first creation or in a mode
\* change, the caller of acquire gets the failure, the pool table holds no
\* entry afterwards (the requester is in no holder set), and the lock is
\* released: a later acquire calls the factory again.
C11_FactoryFailure ==
  [][/\ \A id \in PoolIds : FactoryFailsStep(id) =>
          /\ pops'[id].result = PoolRejected
          /\ pool' = NoEntry
          /\ ~poolBusy'
          /\ nextContext' = nextContext
     /\ \A id \in 1..Len(pops') :
          ( /\ PoolBeginsStep(id)
            /\ pops'[id].op = "acquire"
            /\ \E j \in PoolIds : j < id /\ pops[j].op = "acquire" /\ pops[j].factoryCalls = 1
                                   /\ pops[j].result.kind = "rejected"
            /\ ~pool.present )
          => /\ pops'[id].pc = "creating"
             /\ pops'[id].factoryCalls = 1]_vars

\* the factory failed in a mode change, and a later acquire created a resource
C11_Witness ==
  \E j, id \in PoolIds :
    /\ j < id
    /\ pops[j].op = "acquire" /\ pops[j].result.kind = "rejected"
    /\ pops[j].found.present /\ pops[j].factoryCalls = 1
    /\ pops[id].op = "acquire" /\ pops[id].result.kind = "resolved"
    /\ pops[id].factoryCalls = 1
    /\ pool.present /\ pool.context = pops[id].result.context


\* ------------------------------------------------------------ EventBus claims
PublishStep == pubCount' = pubCount + 1

PublishedType == pubs'[Len(pubs')].eventType

\* the handler invocations the step has made
NewDeliveries == SubSeq(delivered', Len(delivered) + 1, Len(delivered'))

WaiterListening(w) ==
  \E i \in 1..Len(listeners[waiters[w].eventType]) :
    listeners[waiters[w].eventType][i].waiter = w

\* C12: a subscriber that throws during a publish neither keeps the event from
\* the other subscribers of the exact type, of the category wildcard and of
\* the global wildcard, nor makes publish fail.
C12_ThrowingSubscriber ==
  [][PublishStep =>
       /\ ~pubs'[Len(pubs')].rejected
       /\ \A k \in 1..Len(EmitOrder(PublishedType)) :
            \E i \in 1..Len(NewDeliveries) :
              /\ NewDeliveries[i].h = EmitOrder(PublishedType)[k].h
              /\ NewDeliveries[i].channel = EmitOrder(PublishedType)[k].channel
              /\ NewDeliveries[i].waiter = EmitOrder(PublishedType)[k].waiter]_vars

\* C13: the history never holds more than maxHistorySize entries; they are the
\* latest publishes since the last clear, in publish order; after 110 publishes
\* they are exactly publishes 11..110.
C13_HistoryBounded ==
  /\ Len(busHistory) <= maxHistorySize
  /\ Len(busHistory) = IF pubCount - clearedAt < maxHistorySize
                       THEN pubCount - clearedAt ELSE maxHistorySize
  /\ \A i \in 1..Len(busHistory) : busHistory[i].seq = pubCount - Len(busHistory) + i
  /\ (pubCount = 110 /\ clearedAt = 0) =>
       /\ Len(busHistory) = 100
       /\ busHistory[1].seq = 11
       /\ busHistory[100].seq = 110

C13_Witness == pubCount = 110 /\ clearedAt = 0 /\ Len(busHistory) = 100 /\ busHistory[1].seq = 11

\* C14: a waitFor settles once; a publish of its type while it is pending and
\* subscribed resolves it with that event, its timer rejects it, and once
\* settled its outcome never changes.
C14_AsClaimed ==
  [][\A w \in 1..Len(waiters) :
       /\ ( /\ PublishStep /\ PublishedType = waiters[w].eventType
            /\ waiters[w].outcome = WaitPending /\ WaiterListening(w) )
          => waiters'[w].outcome = WaitResolved(pubCount')
       /\ ( waiters[w].timer = "armed" /\ waiters'[w].timer = "fired" )
          => waiters'[w].outcome = WaitTimedOut
       /\ waiters[w].outcome # WaitPending => waiters'[w].outcome = waiters[w].outcome
       /\ waiters'[w].settleCalls <= 1]_vars

\* C15: a settled waitFor has left nothing behind: no listener of its own and
\* no armed timer; the call adds one listener to its event type and the
\* timeout takes exactly that one away again.
C15_NothingLeftBehind ==
  /\ [](\A w \in 1..Len(waiters) :
          waiters[w].outcome # WaitPending =>
            /\ waiters[w].timer # "armed"
            /\ waiters[w].settleCalls = 1
            /\ \A ch \in Channels : \A i \in 1..Len(listeners[ch]) : listeners[ch][i].waiter # w)
  /\ [][/\ Len(waiters') = Len(waiters) + 1 =>
             LET t == waiters'[Len(waiters')].eventType
             IN /\ waiters'[Len(waiters')].countBefore = ListenerCount(listeners, t)
                /\ ListenerCount(listeners', t) = ListenerCount(listeners, t) + 1
        /\ \A w \in 1..Len(waiters) :
             ( waiters[w].timer = "armed" /\ waiters'[w].timer = "fired" /\ WaiterListening(w) ) =>
               /\ ListenerCount(listeners', waiters[w].eventType)
                    = ListenerCount(listeners, waiters[w].eventType) - 1
               /\ \A ch \in Channels \ {waiters[w].eventType} : listeners'[ch] = listeners[ch]
               /\ \A i \in 1..Len(listeners'[waiters[w].eventType]) :
                    listeners'[waiters[w].eventType][i].waiter # w]_vars

C15_Witness ==
  \E w1, w2 \in 1..Len(waiters) :
    /\ waiters[w1].outcome = WaitTimedOut /\ waiters[w1].timer = "fired"
    /\ ListenerCount(listeners, waiters[w1].eventType) = waiters[w1].countBefore
    /\ waiters[w2].outcome.kind = "resolved" /\ waiters[w2].timer = "cleared"

\* C16: a publish calls every listener of the exact type, then every listener
\* of the category wildcard, then every global listener, and a category
\* listener is only ever called for events of its category.
C16_AsClaimed ==
  [][PublishStep =>
       /\ Len(NewDeliveries) = Len(EmitOrder(PublishedType))
       /\ \A k \in 1..Len(NewDeliveries) :
            /\ NewDeliveries[k].tier = EmitOrder(PublishedType)[k].tier
            /\ NewDeliveries[k].h = EmitOrder(PublishedType)[k].h
       /\ \A j, k \in 1..Len(NewDeliveries) : j < k => NewDeliveries[j].tier <= NewDeliveries[k].tier
       /\ \A k \in 1..Len(NewDeliveries) :
            NewDeliveries[k].tier = 2 =>
              NewDeliveries[k].channel = CategoryChannel(Category(PublishedType))]_vars


\* C17: the transition history of the auth machine never holds more than
\* HistoryLimit entries, whatever dispatch, forceState and reset calls are made.
C17_HistoryBounded == Len(stateHistory) <= HistoryLimit


\* ------------------------------------------------------ SessionActor, asks
\* the step in which the question handler is invoked for message id
HandlerInvokedStep(id) == handlerCalls' = Append(handlerCalls, id)

\* the step in which the handler of message id returns
HandlerReturnsStep(id) ==
  /\ id \in Ids
  /\ msgs[id].pc = "awaitHandler"
  /\ msgs'[id].pc = "handled"
  /\ msgs'[id].thrown = NoThrow

\* C18: the handler is invoked with the entity in status waiting and the
\* ask's own question as the last message; when it returns, that ask (and no
\* other) resolves with exactly the returned text, and the entity is idle with
\* that question as a user message followed by that text as an assistant message.
C18_AskResolves ==
  [][\A id \in 1..Len(msgs') :
       /\ HandlerInvokedStep(id) =>
            /\ state'.status = "waiting"
            /\ LastOf(state'.messages) = [role |-> "user", content |-> msgs'[id].question]
       /\ HandlerReturnsStep(id) =>
            /\ msgs'[id].returned \in Responses
            /\ msgs'[id].outcome = Resolved(msgs'[id].returned)
            /\ state'.status = "idle"
            /\ state'.messages =
                 Append(state.messages, [role |-> "assistant", content |-> msgs'[id].returned])
            /\ Len(state'.messages) >= 2
            /\ state'.messages[Len(state'.messages) - 1] =
                 [role |-> "user", content |-> msgs[id].question]
            /\ \A j \in Ids \ {id} : msgs'[j].outcome = msgs[j].outcome]_vars

\* two asks with different questions, the second submitted while the first was
\* pending, have resolved with different responses
C18_Witness ==
  \E i, j \in Ids :
    /\ i < j
    /\ msgs[i].type = "ASK_QUESTION" /\ msgs[j].type = "ASK_QUESTION"
    /\ msgs[i].question # msgs[j].question
    /\ msgs[j].ahead > 0
    /\ msgs[i].outcome = Resolved("r1")
    /\ msgs[j].outcome = Resolved("r2")
    /\ state.status = "idle"
    /\ Len(state.messages) = 4

NoHandlerRejection == Rejected(Failure(TRUE, "No question handler configured", "actor"))

\* C19: an ask processed while no question handler is set rejects that caller
\* (and settles no other) with 'No question handler configured', leaves the
\* entity as it is, invokes nothing and publishes nothing; an ask processed on
\* an idle entity after a handler has been set is passed to the handler even
\* when an earlier ask was rejected for the missing handler.
C19_NoHandler ==
  [][\A id \in 1..Len(msgs') :
       /\ ( BeginsStep(id) /\ msgs'[id].type = "ASK_QUESTION" /\ ~questionHandler ) =>
            /\ msgs'[id].outcome = NoHandlerRejection
            /\ state' = state
            /\ handlerCalls' = handlerCalls
            /\ published' = published
            /\ \A j \in Ids \ {id} : msgs'[j].outcome = msgs[j].outcome
       /\ ( /\ BeginsStep(id) /\ msgs'[id].type = "ASK_QUESTION"
            /\ questionHandler /\ state.status = "idle"
            /\ \E j \in Ids : j < id /\ msgs[j].outcome = NoHandlerRejection ) =>
            /\ HandlerInvokedStep(id)
            /\ msgs'[id].pc = "awaitHandler"
            /\ msgs'[id].outcome = Pending]_vars

\* an ask was rejected for the missing handler, the entity is untouched by it,
\* and a later ask has resolved
C19_Witness ==
  \E i, j \in Ids :
    /\ i < j
    /\ msgs[i].outcome = NoHandlerRejection
    /\ msgs[j].type = "ASK_QUESTION"
    /\ msgs[j].outcome.kind = "resolved"
    /\ Len(state.messages) = 2
    /\ state.status = "idle"

\* C20 as claimed: an ask that is processed while the entity is closed is not
\* rejected by the actor.
C20_AsClaimed ==
  [][\A id \in 1..Len(msgs') :
       ( BeginsStep(id) /\ msgs'[id].type = "ASK_QUESTION" /\ state.status = "closed" )
       => msgs'[id].outcome.kind # "rejected"]_vars

\* C20 (amended): processing a close leaves the entity closed and inactive with
\* its messages kept; an ask processed while the entity is closed is rejected
\* by the actor itself (naming status closed when a handler is set), the
\* handler is not invoked and the entity stays as it is.
C20_PostCloseAsk ==
  [][\A id \in 1..Len(msgs') :
       /\ ( BeginsStep(id) /\ msgs'[id].type = "CLOSE" ) =>
            /\ state'.status = "closed"
            /\ ~isActive(state')
            /\ state'.messages = state.messages
       /\ ( BeginsStep(id) /\ msgs'[id].type = "ASK_QUESTION" /\ state.status = "closed" ) =>
            /\ msgs'[id].outcome.kind = "rejected"
            /\ msgs'[id].outcome.value.origin = "actor"
            /\ questionHandler => msgs'[id].outcome = Rejected(Failure(TRUE, "closed", "actor"))
            /\ handlerCalls' = handlerCalls
            /\ state' = state]_vars

\* an ask submitted after a close was processed has been rejected for the status
C20_Witness ==
  \E i, j \in Ids :
    /\ i < j
    /\ msgs[i].type = "CLOSE" /\ msgs[i].pc = "done"
    /\ msgs[j].type = "ASK_QUESTION" /\ msgs[j].ahead = 0
    /\ msgs[j].outcome = Rejected(Failure(TRUE, "closed", "actor"))
    /\ state.status = "closed"


\* ------------------------------------------------- BrowserContextPool, more
\* C22: a release by a holder of the entry takes one off refCount (never below
\* 0), removes the session from the holders, keeps the entry and its resource
\* pooled and calls no closer, also when refCount reaches 0; a release by a
\* session that holds nothing changes nothing; an acquire of the same mode
\* that follows a release to 0 gets the pooled resource without a factory call.
C22_Release ==
  [][\A id \in 1..Len(pops') :
       /\ ( PoolBeginsStep(id) /\ pops'[id].op = "release" ) =>
            /\ closeLog' = closeLog
            /\ nextContext' = nextContext
            /\ pops'[id].closed = <<>>
            /\ pops'[id].result = PoolResolved(0)
            /\ IF pool.present /\ pops'[id].sid \in pool.sessionIds
               THEN /\ pool'.present
                    /\ pool'.context = pool.context
                    /\ pool'.headless = pool.headless
                    /\ pool'.refCount = (IF pool.refCount > 0 THEN pool.refCount - 1 ELSE 0)
                    /\ pool'.refCount >= 0
                    /\ pool'.sessionIds = pool.sessionIds \ {pops'[id].sid}
               ELSE pool' = pool
       /\ ( /\ PoolBeginsStep(id) /\ pops'[id].op = "acquire"
            /\ pool.present /\ pool.refCount = 0 /\ pool.headless = pops'[id].headless ) =>
            /\ pops'[id].result = PoolResolved(pool.context)
            /\ pops'[id].factoryCalls = 0
            /\ pool'.refCount = 1]_vars

\* the last holder has released, the resource is still pooled and was never closed
C22_Witness ==
  \E id \in PoolIds :
    /\ pops[id].op = "release" /\ pops[id].pc = "done"
    /\ pops[id].found.present /\ pops[id].found.refCount = 1
    /\ pops[id].sid \in pops[id].found.sessionIds
    /\ pool.present /\ pool.refCount = 0 /\ pool.sessionIds = {}
    /\ closeLog = <<>>

\* the step in which forceClose id comes back from the closer
ForceCloseSettlesStep(id) ==
  /\ id \in PoolIds
  /\ pops[id].pc = "forceClosing"
  /\ pops'[id].pc = "done"

\* C23: forceClose passes the pooled entry to the closer whatever its refCount
\* and leaves the pool empty: contextCount 0, totalRefs 0 and hasContext false
\* for every session, also when the entry still had holders.
C23_ForceClose ==
  [][\A id \in 1..Len(pops') :
       /\ ( PoolBeginsStep(id) /\ pops'[id].op = "forceClose" /\ pool.present ) =>
            /\ pops'[id].pc = "forceClosing"
            /\ closeLog' = Append(closeLog, CloseRecord(pool, "forceClose"))
            /\ pops'[id].closed = <<pool.context>>
       /\ ( PoolBeginsStep(id) /\ pops'[id].op = "forceClose" /\ ~pool.present ) =>
            /\ pops'[id].pc = "done" /\ pool' = pool /\ closeLog' = closeLog
       /\ ( id \in PoolIds /\ ForceCloseSettlesStep(id) ) =>
            /\ contextCount(pool') = 0
            /\ totalRefs(pool') = 0
            /\ \A sid \in Sessions : ~hasContext(pool', sid)
            /\ pops'[id].result = PoolResolved(0)
            /\ ~poolBusy']_vars

\* a forceClose has closed an entry that two sessions still held
C23_Witness ==
  \E id \in PoolIds :
    /\ pops[id].op = "forceClose" /\ pops[id].pc = "done"
    /\ pops[id].found.present /\ pops[id].found.refCount = 2
    /\ Cardinality(pops[id].found.sessionIds) = 2
    /\ pops[id].closed = <<pops[id].found.context>>
    /\ ~pool.present

\* the step in which the closer called by acquire id settles
CloserSettlesStep(id) ==
  /\ id \in PoolIds
  /\ pops[id].pc = "closing"
  /\ pops'[id].pc # "closing"

\* C24: a closer failure is not propagated: in a mode-change acquire the old
\* entry is still dropped, the factory is still called and the acquire returns
\* the new resource; a forceClose whose closer fails still resolves and
\* leaves the pool empty.
C24_CloserFailure ==
  [][\A id \in PoolIds :
       /\ CloserSettlesStep(id) =>
            /\ pool' = NoEntry
            /\ pops'[id].pc = "creating"
            /\ pops'[id].result = PoolPending
            /\ pops'[id].factoryCalls = 1
            /\ poolBusy'
       /\ ( /\ pops[id].pc = "creating" /\ pops[id].closerThrew
            /\ pops'[id].pc = "done" /\ nextContext' # nextContext ) =>
            /\ pops'[id].result = PoolResolved(nextContext')
            /\ pool'.present
            /\ pool'.context = nextContext'
            /\ pool'.context # pops[id].found.context
            /\ pool'.headless = pops[id].headless
            /\ pool'.sessionIds = {pops[id].sid}
       /\ ( ForceCloseSettlesStep(id) /\ pops'[id].closerThrew ) =>
            /\ pops'[id].result = PoolResolved(0)
            /\ pool' = NoEntry]_vars

\* the closer failed in a mode-change acquire that has returned the new
\* resource, and failed again in a forceClose that has emptied the pool
C24_Witness ==
  \E i, j \in PoolIds :
    /\ pops[i].op = "acquire" /\ pops[i].closerThrew
    /\ pops[i].result.kind = "resolved"
    /\ pops[i].result.context # pops[i].found.context
    /\ pops[j].op = "forceClose" /\ pops[j].closerThrew /\ pops[j].pc = "done"
    /\ ~pool.present


\* ------------------------------------------------------------- fleet claims
StuckAt(a, i) == i \in 1..Len(fleet[a].msgs) /\ fleet[a].msgs[i].pc = "stuck"

HasStuck(a) == \E i \in 1..Len(fleet[a].msgs) : StuckAt(a, i)

AllDone(a) == \A i \in 1..Len(fleet[a].msgs) : fleet[a].msgs[i].pc = "done"

\* C21: a handler that is stuck stays stuck, and while it is, the lock of its
\* actor stays taken and no message submitted to that actor after the stuck
\* one is processed; an actor none of whose handlers is stuck processes every
\* message it was given to completion, whatever the other actors do.
C21_SessionStall ==
  /\ [](\A a \in Actors : \A i \in 1..Len(fleet[a].msgs) :
          StuckAt(a, i) =>
            /\ fleet[a].busy
            /\ \A j \in (i + 1)..Len(fleet[a].msgs) :
                 fleet[a].msgs[j].pc = "queued" /\ fleet[a].msgs[j].outcome = "pending")
  /\ [][\A a \in Actors : \A i \in 1..Len(fleet[a].msgs) : StuckAt(a, i) => StuckAt(a, i)']_vars
  /\ \A a \in Actors : []<>(HasStuck(a) \/ AllDone(a))

\* the handler of one actor is stuck with a message waiting behind it, and a
\* message submitted to another actor after that has been processed
C21_Witness ==
  \E a, b \in Actors :
    /\ a # b
    /\ StuckAt(a, 1)
    /\ Len(fleet[a].msgs) = 2 /\ fleet[a].msgs[2].pc = "queued"
    /\ \E i \in 1..Len(fleet[b].msgs) :
         /\ fleet[b].msgs[i].whileStuck
         /\ fleet[b].msgs[i].type = "ASK_QUESTION"
         /\ fleet[b].msgs[i].pc = "done"
         /\ fleet[b].msgs[i].outcome = "resolved"


\* C29: every replacement of an actor's entity is announced by one
\* stateChanged(newEntity, oldEntity) whose oldEntity is the entity that was
\* replaced: the emissions are the replacements, one for one.
C29_StateChanged == \A a \in Actors : fleet[a].emitted = fleet[a].swaps


\* C30 as claimed: an ask processed while the entity is not idle is rejected
\* with an error naming the status, the handler is not invoked and the entity
\* is left as it is.
C30_AsClaimed ==
  [][\A id \in 1..Len(msgs') :
       ( BeginsStep(id) /\ msgs'[id].type = "ASK_QUESTION" /\ state.status # "idle" ) =>
         /\ msgs'[id].outcome = Rejected(Failure(TRUE, state.status, "actor"))
         /\ handlerCalls' = handlerCalls
         /\ state' = state]_vars

\* C30 (amended): an ask processed while the entity is not idle is rejected,
\* the handler is not invoked and the entity is left as it is; the error
\* names the status when a question handler is set, and is 'No question
\* handler configured' when none is.
C30_NotIdleAsk ==
  [][\A id \in 1..Len(msgs') :
       ( BeginsStep(id) /\ msgs'[id].type = "ASK_QUESTION" /\ state.status # "idle" ) =>
         /\ state.status \in {"error", "closed"}
         /\ msgs'[id].outcome =
              (IF questionHandler
               THEN Rejected(Failure(TRUE, state.status, "actor"))
               ELSE NoHandlerRejection)
         /\ msgs'[id].pc = "handled"
         /\ handlerCalls' = handlerCalls
         /\ published' = published
         /\ state' = state]_vars

\* two asks submitted behind an ask whose handler then failed have both been
\* rejected for status error, and the handler was invoked once
C30_Witness ==
  /\ Len(msgs) = 3
  /\ HandlerFailed(1)
  /\ msgs[2].ahead > 0
  /\ msgs[2].outcome = Rejected(Failure(TRUE, "error", "actor"))
  /\ msgs[3].outcome = Rejected(Failure(TRUE, "error", "actor"))
  /\ handlerCalls = <<1>>
  /\ state.status = "error"


\* --------------------------------------------------------- unsubscribing
\* the step in which unsubscribe closure c is called
UnsubscribeStep(c) ==
  /\ c \in 1..Len(closures)
  /\ Len(closures') = Len(closures)
  /\ closures'[c].calls = closures[c].calls + 1

\* C25 as claimed: a second call of an unsubscribe closure changes nothing.
C25_AsClaimed ==
  [][\A c \in 1..Len(closures) :
       ( UnsubscribeStep(c) /\ closures[c].calls >= 1 ) => listeners' = listeners]_vars

\* C25 (amended): a call of an unsubscribe closure, first or repeated, takes
\* every subscription of its own handler off its own event name and nothing
\* else: subscriptions of other handlers and of other event names stay, in
\* order; a repeated call changes nothing unless the handler has been
\* subscribed to that event name again since; and a handler is only ever
\* called through a subscription it has at the time of the publish.
C25_Unsubscribe ==
  [][/\ \A c \in 1..Len(closures) :
          UnsubscribeStep(c) =>
            /\ \A ch \in Channels \ {closures[c].channel} : listeners'[ch] = listeners[ch]
            /\ listeners'[closures[c].channel] =
                 SelectSeq(listeners[closures[c].channel],
                           LAMBDA e : e.h # closures[c].h \/ e.waiter # 0)
            /\ ( \A i \in 1..Len(listeners[closures[c].channel]) :
                   listeners[closures[c].channel][i].h # closures[c].h )
               => listeners' = listeners
            /\ waiters' = waiters /\ delivered' = delivered /\ pubs' = pubs
     /\ PublishStep =>
          \A k \in 1..Len(NewDeliveries) :
            \E i \in 1..Len(listeners[NewDeliveries[k].channel]) :
              /\ listeners[NewDeliveries[k].channel][i].h = NewDeliveries[k].h
              /\ listeners[NewDeliveries[k].channel][i].waiter = NewDeliveries[k].waiter]_vars

\* a closure has been called twice while another handler was subscribed to the
\* same event name, and that subscription is still there
C25_Witness ==
  \E c \in 1..Len(closures) :
    /\ closures[c].calls = 2
    /\ \E i \in 1..Len(listeners[closures[c].channel]) :
         listeners[closures[c].channel][i].h # closures[c].h
    /\ \A i \in 1..Len(listeners[closures[c].channel]) :
         listeners[closures[c].channel][i].h # closures[c].h


\* ------------------------------------------------------ SessionEntity claims
\* the step in which a transition method is called
EntityCallStep == Len(entityCalls') = Len(entityCalls) + 1

LastCall == entityCalls'[Len(entityCalls')]

\* C26: a transition method changes no field of any existing object, the
\* receiver included; when it succeeds its result is a new object that
\* carries the new status, messages and timestamp (startProcessing on an idle
\* e1 leaves e1 idle and gives a processing e2 with exactly one message more).
C26_Immutable ==
  [][EntityCallStep =>
       /\ \A i \in 1..Len(heap) : heap'[i] = heap[i]
       /\ LastCall.result # 0 =>
            /\ LastCall.result = Len(heap) + 1
            /\ LastCall.result # LastCall.receiver
            /\ Len(heap') = Len(heap) + 1
            /\ heap'[LastCall.result].lastActivityAt = now'
            /\ heap'[LastCall.result].lastActivityAt > heap'[LastCall.receiver].lastActivityAt
       /\ ( LastCall.result # 0 /\ LastCall.method = "startProcessing" ) =>
            /\ heap'[LastCall.receiver].status = "idle"
            /\ heap'[LastCall.result].status = "processing"
            /\ Len(heap'[LastCall.result].messages)
                 = Len(heap'[LastCall.receiver].messages) + 1
       /\ ( LastCall.result # 0 /\ LastCall.method \in {"markError", "close", "reset"} ) =>
            heap'[LastCall.result].status
              = (CASE LastCall.method = "markError" -> "error"
                   [] LastCall.method = "close" -> "closed"
                   [] LastCall.method = "reset" -> "idle")]_vars

\* an entity has gone idle, processing, waiting, idle through three calls and
\* the four objects are all there, each as it was constructed
C26_Witness ==
  /\ Len(heap) = 4
  /\ heap[1].status = "idle" /\ heap[1].messages = <<>> /\ heap[1].lastActivityAt = 0
  /\ heap[2].status = "processing" /\ Len(heap[2].messages) = 1
  /\ heap[3].status = "waiting"
  /\ heap[4].status = "idle" /\ Len(heap[4].messages) = 2

\* C27: startProcessing succeeds only from idle, startWaiting only from
\* processing, completeWithResponse only from waiting or processing; a
\* refused call throws an error naming the status of the receiver and
\* constructs nothing; markError, reset, close and touch succeed from every status.
C27_StatusGuards ==
  [][EntityCallStep =>
       LET st == heap[LastCall.receiver].status
           ok == CASE LastCall.method = "startProcessing" -> st = "idle"
                   [] LastCall.method = "startWaiting" -> st = "processing"
                   [] LastCall.method = "completeWithResponse" -> st \in {"waiting", "processing"}
                   [] OTHER -> TRUE
       IN /\ ok <=> LastCall.result # 0
          /\ ~ok => ( LastCall.threw = st /\ heap' = heap )
          /\ ok => LastCall.threw = ""]_vars

\* startWaiting was refused on an error entity, which markError constructed
\* from a processing entity
C27_Witness ==
  \E k \in 1..Len(entityCalls) :
    /\ entityCalls[k].method = "startWaiting"
    /\ entityCalls[k].result = 0
    /\ entityCalls[k].threw = "error"
    /\ \E j \in 1..(k - 1) :
         /\ entityCalls[j].method = "markError" /\ entityCalls[j].result = entityCalls[k].receiver
         /\ heap[entityCalls[j].receiver].status = "processing"


\* ---------------------------------------------------- asynchronous handlers
\* C28: once the promise publish returned has resolved, every call that
\* publish made to a handler registered with subscribe for the exact event
\* type has completed, asynchronous handlers included.
C28_AwaitsExactType ==
  \A p \in 1..Len(pubs) : \A k \in 1..Len(delivered) :
    ( /\ ~pubs[p].rejected
      /\ delivered[k].seq = pubs[p].seq
      /\ delivered[k].tier = 1
      /\ ~delivered[k].once
      /\ delivered[k].waiter = 0 ) => k \in completed


\* ------------------------------------------------- BrowserContextPool, lock
\* operation id is inside `await this.factory(...)` or `await this.closer(...)`
PoolInFlight(id) == pops[id].pc \in {"closing", "creating", "forceClosing"}

\* every operation so far is an acquire of one mode and none was rejected
SameModeAcquires ==
  /\ pops # <<>>
  /\ \A id \in PoolIds :
       /\ pops[id].op = "acquire"
       /\ pops[id].headless = pops[1].headless
       /\ pops[id].result # PoolRejected

ClosedUnder(sid) ==
  \E a \in PoolIds, b \in PoolIds :
    /\ pops[a].op = "acquire" /\ pops[a].sid = sid /\ pops[a].result.kind = "resolved"
    /\ pops[b].op = "acquire"
    /\ \E k \in 1..Len(pops[b].closed) : pops[b].closed[k] = pops[a].result.context

CloserDone(c) ==
  \E id \in PoolIds :
    /\ pops[id].pc \notin {"closing", "forceClosing"}
    /\ \E k \in 1..Len(pops[id].closed) : pops[id].closed[k] = c

\* the resources created and not yet closed
Live == {c \in 1..nextContext : ~CloserDone(c)}

\* C38: the pool has at most one entry and, as long as no closer call has
\* failed, at most one resource is created and not yet closed: it is the
\* pooled one, and while a factory call is in flight there is none.
C38_OneResource ==
  /\ contextCount(pool) <= 1
  /\ ( \A id \in PoolIds : ~pops[id].closerThrew ) =>
       /\ Cardinality(Live) <= 1
       /\ \A c \in Live : pool.present /\ pool.context = c
       /\ ( \E id \in PoolIds : pops[id].pc = "creating" ) => Live = {}

\* a mode change has replaced resource 1 by resource 2 while another
\* operation was waiting for the lock
C38_Witness ==
  /\ nextContext = 2
  /\ Live = {2}
  /\ pool.present /\ pool.context = 2
  /\ \A id \in PoolIds : ~pops[id].closerThrew
  /\ \E b \in PoolIds : pops[b].op = "acquire" /\ pops[b].closed = <<1>> /\ pops[b].pc = "done"
  /\ poolQueue # <<>>


\* --------------------------------------------------- AuthStateMachine, more
\* C33: forceState(s) sets the state to s whatever the current state and the
\* table; it runs under the lock of dispatch, after every operation submitted
\* before it has returned, and a dispatch submitted right after a forceState
\* is evaluated against the forced state.
C33_ForceState ==
  /\ [](\A d \in AuthIds :
          ( /\ d > 1
            /\ aops[d].op = "dispatch" /\ aops[d].pc # "queued"
            /\ aops[d - 1].op = "forceState" ) =>
              aops[d].result = (IF canTransition(aops[d - 1].arg, aops[d].arg)
                                THEN "true" ELSE "false"))
  /\ [][\A id \in 1..Len(aops') :
          ( AuthRunsStep(id) /\ aops'[id].op = "forceState" ) =>
            /\ authState' = aops'[id].arg
            /\ lastEvent' = lastEvent
            /\ aops'[id].result = "void"
            /\ \A other \in AuthIds \ {id} :
                 /\ aops[other].pc # "executed"
                 /\ other < id => aops[other].pc = "done"]_vars

\* a machine created unauthenticated was forced to expired, which no
\* transition from unauthenticated gives, and a STATE_CLEARED dispatched while
\* the forceState held the lock was accepted
C33_Witness ==
  /\ initialState = "unauthenticated"
  /\ Len(aops) >= 2
  /\ aops[1].op = "forceState" /\ aops[1].arg = "expired"
  /\ aops[2].op = "dispatch" /\ aops[2].arg = "STATE_CLEARED"
  /\ aops[2].waited /\ aops[2].pc = "done" /\ aops[2].result = "true"
  /\ authState = "unauthenticated"

\* C34: every accepted dispatch emits stateChanged(newState, oldState, event)
\* exactly once, with the state already updated, and then one of authStarted,
\* authSucceeded, authFailed, expired, cleared; a rejected dispatch emits nothing.
C34_Notifications ==
  \A id \in AuthIds :
    /\ ( aops[id].op = "dispatch" /\ aops[id].result = "true" ) =>
         /\ Len(aops[id].emitted) = 2
         /\ aops[id].emitted[1].name = "stateChanged"
         /\ aops[id].emitted[1].args[3] = aops[id].arg
         /\ aops[id].emitted[1].seen = aops[id].emitted[1].args[1]
         /\ aops[id].emitted[2].name
              \in {"authStarted", "authSucceeded", "authFailed", "expired", "cleared"}
    /\ aops[id].result # "true" => aops[id].emitted = <<>>

\* the states the accepted dispatches lead to from the states of S
RECURSIVE ReachableFrom(_)
ReachableFrom(S) ==
  LET T == S \cup ({ getNextState(s, e) : s \in S, e \in AuthEvents } \ {"null"})
  IN IF T = S THEN S ELSE ReachableFrom(T)

\* the states from which accepted dispatches lead to authenticated
CanAuthenticate == { s \in AuthStates : "authenticated" \in ReachableFrom({s}) }

\* C39: the table has no trap state: in every state some event is accepted
\* and authenticated can be reached through accepted dispatches; a dispatch
\* enters expired only from authenticated.
C39_NoTrap ==
  /\ [](/\ \E e \in AuthEvents : canTransition(authState, e)
        /\ authState \in CanAuthenticate
        /\ CanAuthenticate = AuthStates)
  /\ [][\A id \in 1..Len(aops') :
          ( /\ AuthRunsStep(id) /\ aops'[id].op = "dispatch"
            /\ authState' = "expired" /\ aops'[id].result = "true" ) =>
              authState = "authenticated"]_vars

\* a machine created in error went to authenticated through START_AUTH and
\* AUTH_SUCCESS and then expired
C39_Witness ==
  /\ initialState = "error"
  /\ Len(aops) = 3
  /\ \A id \in AuthIds : aops[id].op = "dispatch" /\ aops[id].result = "true"
  /\ stateHistory[2].state = "authenticated"
  /\ authState = "expired"


\* ------------------------------------------------- SessionActor, message log
\* the log is a sequence of user message, assistant message pairs
Answered(messages) ==
  /\ Len(messages) % 2 = 0
  /\ \A k \in 1..Len(messages) :
       messages[k].role = (IF k % 2 = 1 THEN "user" ELSE "assistant")

\* C36: whenever the entity of the actor is idle every recorded question has
\* its answer: the log has even length and alternates user, assistant; a user
\* message without an answer exists only in the other statuses.
C36_IdleLogAnswered ==
  /\ state.status = "idle" => Answered(state.messages)
  /\ ~Answered(state.messages) =>
       state.status \in {"processing", "waiting", "error", "closed"}

\* a handler failure left a question unanswered, a reset cleared the log, and
\* the next ask was answered
C36_Witness ==
  /\ Len(msgs) = 3
  /\ msgs[1].type = "ASK_QUESTION" /\ msgs[1].thrown # NoThrow
  /\ msgs[2].type = "RESET" /\ msgs[2].outcome.kind = "resolved"
  /\ msgs[3].type = "ASK_QUESTION" /\ msgs[3].outcome.kind = "resolved"
  /\ state.status = "idle"
  /\ Len(state.messages) = 2


\* ----------------------------------------------------- SessionActor, promises
\* every promise actor a has handed out for an ask, a reset or a close is settled
AllSettled(a) ==
  \A i \in 1..Len(fleet[a].msgs) :
    fleet[a].msgs[i].type # "TOUCH" => fleet[a].msgs[i].outcome # "pending"

\* C37: unless a question handler never returns, every promise returned by
\* ask, reset and close is settled in the end, and a settled promise stays as
\* it was settled: resolved or rejected, once.
C37_Settles ==
  /\ [][\A a \in Actors : \A i \in 1..Len(fleet[a].msgs) :
          fleet[a].msgs[i].outcome # "pending" =>
            fleet'[a].msgs[i].outcome = fleet[a].msgs[i].outcome]_vars
  /\ [](\A a \in Actors : \A i \in 1..Len(fleet[a].msgs) :
          /\ fleet[a].msgs[i].outcome \in {"pending", "resolved", "rejected"}
          /\ fleet[a].msgs[i].pc = "done" =>
               ( fleet[a].msgs[i].type = "TOUCH" <=> fleet[a].msgs[i].outcome = "pending" ))
  /\ \A a \in Actors : []<>(HasStuck(a) \/ AllSettled(a))

\* the handler threw for an ask, then a reset and a close went through: the
\* three promises are settled and the lock callbacks have returned
C37_Witness ==
  /\ Len(fleet["a1"].msgs) = 3
  /\ fleet["a1"].msgs[1].type = "ASK_QUESTION" /\ fleet["a1"].msgs[1].outcome = "rejected"
  /\ fleet["a1"].msgs[2].type = "RESET" /\ fleet["a1"].msgs[2].outcome = "resolved"
  /\ fleet["a1"].msgs[3].type = "CLOSE" /\ fleet["a1"].msgs[3].outcome = "resolved"
  /\ \A i \in 1..3 : fleet["a1"].msgs[i].pc = "done"


\* ------------------------------------------------------------- the adapters
\* C35: a streaming question goes through the actor queue: it is never run
\* against the browser session while the question handler of an ask of the
\* same session is in flight.
C35_StreamingQueued ==
  ~ ( /\ \E k \in 1..Len(streams) : streams[k].pc = "running"
      /\ \E id \in Ids : msgs[id].pc = "awaitHandler" )

\* C40: whenever setupAuth returns success = true its AUTH_SUCCESS dispatch
\* was accepted and the machine is authenticated at the return.
C40_SuccessMeansAuthenticated ==
  \A i \in 1..Len(setups) :
    ( setups[i].pc = "returned" /\ setups[i].success ) =>
      /\ aops[setups[i].second].result = "true"
      /\ setups[i].atReturn = "authenticated"

====
